---------------------------- MODULE Spec2Model ----------------------------
(***************************************************************************)
(* A model of the PPTGenerator layout engine (src/ppt_generator.py) and of *)
(* the slide schema it is fed from (src/main.py).                          *)
(*                                                                         *)
(* Strings are sequences of one-character strings.  A dict field is one of *)
(*   Missing    the key is not in the dict                                 *)
(*   None       the key is there and holds Python's None                   *)
(*   Some(x)    the key holds the value x                                  *)
(* An exception leaving create_presentation is pc = "error" with the       *)
(* source line that raised it in err.                                      *)
(***************************************************************************)
EXTENDS Integers, Sequences, FiniteSets, TLC

VARIABLES
    slides_data,   \* the caller's list of slide dicts (mutated in place)
    given,         \* the list as the caller handed it over (never changed)
    i,             \* number of records create_presentation has processed
    pc,            \* "loop" | "done" | "error" | "idle"
    err,           \* source line of the exception that ended the call, 0 if none
    prs,           \* the document: one entry per slide added so far
    text,          \* the argument of apply_formatted_text_to_paragraph
    runs,          \* the runs it added to the paragraph
    ppc,           \* "ready" | "parsed" | "idle"
    calls,         \* concurrent callers: the locals of each caller's call
    docs,          \* concurrent callers: the Presentation object of each call
    ep             \* the generate_from_text endpoint: its request in progress

vars == <<slides_data, given, i, pc, err, prs, text, runs, ppc, calls, docs, ep>>

(***************************************************************************)
(* Bounds of the model.                                                    *)
(***************************************************************************)
MaxSlides == 2      \* longest deck handed to create_presentation
MaxTextLen == 6     \* longest text handed to the markup parser
MaxSteps == 5       \* most steps of a process record
MaxMilestones == 4  \* most milestones of a timeline record
MaxCols == 2        \* most header cells of a table record
MaxRows == 2        \* most data rows of a table record
MaxCards == 7       \* most items of a cards record
MaxBars == 2        \* most items of a progress record

(***************************************************************************)
(* Strings.                                                                *)
(***************************************************************************)
Rep(c, n) == [k \in 1..n |-> c]

\* s[a:b] of Python for 0 <= a, written with 1-based inclusive ends:
\* SubStr(s, lo, hi) is s[lo-1:hi]; empty when hi < lo.
SubStr(s, lo, hi) == [k \in 1..(IF hi < lo THEN 0 ELSE hi - lo + 1) |-> s[lo + k - 1]]

startswith(s, p) == Len(s) >= Len(p) /\ SubStr(s, 1, Len(p)) = p

endswith(s, p) == Len(s) >= Len(p) /\ SubStr(s, Len(s) - Len(p) + 1, Len(s)) = p

SetMin(S) == CHOOSE m \in S : \A n \in S : m <= n

RECURSIVE Concat(_)
Concat(ss) == IF ss = <<>> THEN <<>> ELSE Head(ss) \o Concat(Tail(ss))

Ellipsis == <<".", ".", ".">>

(***************************************************************************)
(* Dict fields.                                                            *)
(***************************************************************************)
Missing == [tag |-> "missing"]
None == [tag |-> "none"]
Some(x) == [tag |-> "val", v |-> x]

\* key in data
Has(f) == f.tag # "missing"

\* Python truthiness of a field holding a str or a list (None is false)
Truthy(f) == f.tag = "val" /\ Len(f.v) > 0

\* Python truthiness of a field holding a bool (None is false)
TruthyBool(f) == f.tag = "val" /\ f.v = TRUE

(***************************************************************************)
(* Design constants (src/ppt_generator.py, section 1).                     *)
(***************************************************************************)
GOOGLE_BLUE == "4285F4"
RED == "FF0000"
ORANGE == "FFA500"
GREEN == "008000"
FONT_BODY == "Meiryo UI"
NoColor == "inherit"

(***************************************************************************)
(* The inline markup parser.                                               *)
(***************************************************************************)
\* the two characters a, b stand at s[p], s[p+1]
At2(s, p, a, b) == p >= 1 /\ p + 1 <= Len(s) /\ s[p] = a /\ s[p + 1] = b

\* '.' of the pattern: any character but a line break
Dot(s, lo, hi) == \A k \in lo..hi : s[k] # "\n"

\* the places where a closing marker cc can end a match opened at p (.*? may
\* take s[p+2 .. q-1])
Closers(s, p, c) == {q \in (p + 2)..(Len(s) - 1) : At2(s, q, c, c) /\ Dot(s, p + 2, q - 1)}

\* the pattern with greedy .* : the last closer
MatchEnd_Greedy(s, p) ==
    LET last(S) == CHOOSE q \in S : \A r \in S : r <= q
    IN  IF At2(s, p, "*", "*") /\ Closers(s, p, "*") # {}
        THEN last(Closers(s, p, "*")) + 1
        ELSE IF At2(s, p, "[", "[") /\ Closers(s, p, "]") # {}
        THEN last(Closers(s, p, "]")) + 1
        ELSE 0

\* r'(\*\*.*?\*\*|\[\[.*?\]\])' tried at position p: the index of the last
\* character of the match, 0 if there is none.  Non-greedy: the first closer.
MatchEnd(s, p) ==
    IF At2(s, p, "*", "*") /\ Closers(s, p, "*") # {}
    THEN SetMin(Closers(s, p, "*")) + 1
    ELSE IF At2(s, p, "[", "[") /\ Closers(s, p, "]") # {}
    THEN SetMin(Closers(s, p, "]")) + 1
    ELSE 0

\* re.split with one capturing group, scanning from position from: the text
\* before the leftmost match, the match, and so on; the rest of the text last.
RECURSIVE SplitFrom(_, _)
SplitFrom(s, from) ==
    LET starts == {p \in {q \in from..Len(s) : s[q] \in {"*", "["}} : MatchEnd(s, p) > 0}
    IN  IF starts = {}
        THEN <<SubStr(s, from, Len(s))>>
        ELSE LET p == SetMin(starts)
                 e == MatchEnd(s, p)
             IN  <<SubStr(s, from, p - 1), SubStr(s, p, e)>> \o SplitFrom(s, e + 1)

re_split(s) == SplitFrom(s, 1)

Stars == <<"*", "*">>
Opens == <<"[", "[">>
Closes == <<"]", "]">>

\* part[2:-2]
Inner(part) == SubStr(part, 3, Len(part) - 2)

Run(t, b, c) == [text |-> t, bold |-> b, color |-> c, font |-> FONT_BODY]

\* the body of the for loop: the runs one part adds
PartRuns(part) ==
    IF startswith(part, Stars) /\ endswith(part, Stars)
    THEN <<Run(Inner(part), TRUE, NoColor)>>
    ELSE IF startswith(part, Opens) /\ endswith(part, Closes)
    THEN <<Run(Inner(part), TRUE, GOOGLE_BLUE)>>
    ELSE IF part # <<>>
    THEN <<Run(part, FALSE, NoColor)>>
    ELSE <<>>

RECURSIVE PartsRuns(_)
PartsRuns(parts) ==
    IF parts = <<>> THEN <<>> ELSE PartRuns(Head(parts)) \o PartsRuns(Tail(parts))

\* the runs apply_formatted_text_to_paragraph(p, t) adds to p; t is a dict
\* field or a string wrapped in Some
apply_formatted_text_to_paragraph(t) ==
    IF ~Truthy(t) THEN <<>> ELSE PartsRuns(re_split(t.v))

(***************************************************************************)
(* Text frames and shapes.  A paragraph is its runs and its paragraph-level *)
(* bold; a text frame is a sequence of paragraphs; a shape is its kind, the *)
(* part of the layout it draws (role), its paragraphs and, for a table, its *)
(* grid of cell paragraphs.                                                 *)
(***************************************************************************)
Para(rs, b) == [runs |-> rs, bold |-> b]

\* the one empty paragraph of a new or cleared text frame
EmptyPara == Para(<<>>, FALSE)

\* p.text = s : one run holding s, none for the empty string
PlainText(s) == IF s = <<>> THEN <<>> ELSE <<[text |-> s, bold |-> FALSE, color |-> NoColor, font |-> "inherit"]>>

(***************************************************************************)
(* Lengths.  pptx.util lengths are whole numbers of EMU (914400 to the     *)
(* inch); a true division in the source makes the value a float.  A length *)
(* is kept here as a fraction in lowest terms, so the arithmetic of the    *)
(* source is exact; the rounding error of binary floating point (far below *)
(* one EMU before truncation) is not represented.                          *)
(***************************************************************************)
Abs(a) == IF a < 0 THEN -a ELSE a

RECURSIVE GCD(_, _)
GCD(a, b) == IF b = 0 THEN a ELSE GCD(b, a % b)

\* the fraction n/d (d # 0) in lowest terms with a positive denominator
Q(n, d) ==
    LET g == GCD(Abs(n), Abs(d))
        sg == IF d < 0 THEN -1 ELSE 1
    IN  [num |-> sg * (n \div g), den |-> sg * (d \div g)]

\* a whole number as a length
Whole(n) == [num |-> n, den |-> 1]

Add(x, y) == Q(x.num * y.den + y.num * x.den, x.den * y.den)
Sub(x, y) == Q(x.num * y.den - y.num * x.den, x.den * y.den)
Mul(x, y) == Q(x.num * y.num, x.den * y.den)
Div(x, y) == Q(x.num * y.den, x.den * y.num)

\* int(x): towards zero
Trunc(x) == IF x.num >= 0 THEN x.num \div x.den ELSE -((-x.num) \div x.den)

\* Inches(n/d) = int(n/d * 914400)
Inches(n, d) == Whole((n * 914400) \div d)

SLIDE_WIDTH == Inches(16, 1)
SLIDE_HEIGHT == Inches(9, 1)
MARGIN_LEFT == Inches(1, 1)
MARGIN_RIGHT == Inches(1, 1)
MARGIN_TOP == Inches(8, 10)
MARGIN_BOTTOM == Inches(8, 10)

\* the position and size a shape is created with: python-pptx writes each of
\* the four with %d, which drops the fraction of a float
Box(left, top, width, height) ==
    [left |-> Trunc(left), top |-> Trunc(top), width |-> Trunc(width), height |-> Trunc(height)]

TextBox(role, box, paras) ==
    [shape |-> "textbox", role |-> role, box |-> box, paras |-> paras, cells |-> <<>>]

AutoShape(kind, role, box, paras) ==
    [shape |-> kind, role |-> role, box |-> box, paras |-> paras, cells |-> <<>>]

\* a table of Len(cells) rows; cols is the number of grid columns
TableShape(box, cols, cells) ==
    [shape |-> "table", role |-> "table", box |-> box, paras |-> <<>>, cells |-> cells,
     cols |-> cols]

\* what a drawing function leaves behind: the shapes it added and, when it
\* raised, the source line of the exception (0: it returned)
Drawn(shapes) == [shapes |-> shapes, err |-> 0]
Raised(shapes, line) == [shapes |-> shapes, err |-> line]

\* data.get(key, default) for a key whose value is a str or a list
Get(f, default) == IF f.tag = "missing" THEN Some(default) ELSE f

MAX_TEXT_LENGTH_FOR_NAME == 1000
MAX_NOTES_LENGTH_FOR_NAME == 1000
GuardCeiling == 1000

\* text[:n] + "..." when len(text) > n
Truncate(s, n) == IF Len(s) > n THEN SubStr(s, 1, n) \o Ellipsis ELSE s

\* the paragraphs set_formatted_text_in_frame(text_frame, t) leaves in the
\* frame; bold is the paragraph-level bold the caller set before
set_formatted_text_in_frame(t, bold) ==
    IF ~Truthy(t)
    THEN <<Para(<<>>, bold)>>
    ELSE <<Para(apply_formatted_text_to_paragraph(
                    Some(Truncate(t.v, MAX_TEXT_LENGTH_FOR_NAME))), bold)>>

\* the notes of the slide after add_speaker_notes(slide, t): Missing when no
\* notes slide is made
add_speaker_notes(t) ==
    IF ~Truthy(t) THEN Missing ELSE Some(Truncate(t.v, MAX_NOTES_LENGTH_FOR_NAME))

\* one paragraph per item, each filled by apply_formatted_text_to_paragraph
ItemParas(items, bold) ==
    [k \in 1..Len(items) |-> Para(apply_formatted_text_to_paragraph(Some(items[k])), bold)]

\* the slide title every layout but title, section and closing starts with
TitleBox(data) ==
    TextBox("title",
            Box(MARGIN_LEFT, MARGIN_TOP, Sub(Sub(SLIDE_WIDTH, MARGIN_LEFT), MARGIN_RIGHT), Inches(1, 1)),
            set_formatted_text_in_frame(Get(data.title, <<>>), TRUE))

\* body_top before and after the subhead region
BodyTop == Add(MARGIN_TOP, Inches(12, 10))
BodyTopAfterSubhead(data) == IF Has(data.subhead) THEN Add(BodyTop, Inches(6, 10)) ELSE BodyTop

\* the subhead region of compare, process, table, diagram, cards, progress
SubheadBox(data) ==
    IF Has(data.subhead)
    THEN <<TextBox("subhead",
                   Box(MARGIN_LEFT, BodyTop, Sub(Sub(SLIDE_WIDTH, MARGIN_LEFT), MARGIN_RIGHT),
                       Inches(5, 10)),
                   <<Para(apply_formatted_text_to_paragraph(data.subhead), FALSE)>>)>>
    ELSE <<>>

(***************************************************************************)
(* The layout functions.                                                   *)
(***************************************************************************)
draw_title_slide(data) ==
    LET w == Sub(SLIDE_WIDTH, Inches(2, 1))
    IN  Drawn(<<TextBox("title", Box(Inches(1, 1), Inches(35, 10), w, Inches(2, 1)),
                        set_formatted_text_in_frame(Get(data.title, <<>>), TRUE)),
                TextBox("date", Box(Inches(1, 1), Inches(8, 1), w, Inches(5, 10)),
                        <<Para(PlainText(Get(data.date, <<>>).v), FALSE)>>)>>)

Digit == {"0", "1", "2", "3", "4", "5", "6", "7", "8", "9"}
Space == {" ", "\t", "\n"}

DigitChars == <<"0", "1", "2", "3", "4", "5", "6", "7", "8", "9">>

\* str(n) for an int
RECURSIVE IntStr(_)
IntStr(n) ==
    IF n < 0 THEN <<"-">> \o IntStr(-n)
    ELSE IF n < 10 THEN <<DigitChars[n + 1]>>
    ELSE IntStr(n \div 10) \o <<DigitChars[(n % 10) + 1]>>

\* length of the longest prefix of s from position p whose characters are in S
RECURSIVE SpanLen(_, _, _)
SpanLen(s, p, S) == IF p <= Len(s) /\ s[p] \in S THEN 1 + SpanLen(s, p + 1, S) ELSE 0

\* re.sub(r'^\d+[\.\:\-]?\s*', '', s)
StripSectionPrefix(s) ==
    LET d == SpanLen(s, 1, Digit)
        q == IF d + 1 <= Len(s) /\ s[d + 1] \in {".", ":", "-"} THEN d + 1 ELSE d
        w == SpanLen(s, q + 1, Space)
    IN  IF d = 0 THEN s ELSE SubStr(s, q + w + 1, Len(s))

\* str(data.get("sectionNo", ""))
SectionNoText(f) ==
    IF f.tag = "missing" THEN <<>>
    ELSE IF f.tag = "none" THEN <<"N", "o", "n", "e">>
    ELSE IntStr(f.v)

draw_section_slide(data) ==
    LET total_width == Sub(SLIDE_WIDTH, Mul(MARGIN_LEFT, Whole(2)))
        section_no_width == Inches(2, 1)
        section_title_width == Sub(Sub(total_width, section_no_width), Inches(5, 10))
    IN  Drawn(<<TextBox("section_no",
                        Box(MARGIN_LEFT, Inches(3, 1), section_no_width, Inches(3, 1)),
                        <<Para(PlainText(SectionNoText(data.sectionNo)), TRUE)>>),
                TextBox("title",
                        Box(Add(Add(MARGIN_LEFT, section_no_width), Inches(5, 10)), Inches(3, 1),
                            section_title_width, Inches(3, 1)),
                        set_formatted_text_in_frame(
                            Some(StripSectionPrefix(Get(data.title, <<>>).v)), TRUE))>>)

Agenda == <<"A", "g", "e", "n", "d", "a">>
\* the katakana word of line 252, one code point per element
AgendaJa == <<"U+30A2", "U+30B8", "U+30A7", "U+30F3", "U+30C0">>

\* sub in s
Contains(s, sub) == \E p \in 1..(Len(s) - Len(sub) + 1) : SubStr(s, p, p + Len(sub) - 1) = sub

\* the two panes of content (two columns) and compare: the width of a pane
\* and the left edge of the right pane
ColumnWidth ==
    Div(Sub(Sub(SLIDE_WIDTH, Mul(MARGIN_LEFT, Whole(2))), Inches(5, 10)), Whole(2))
RightColumnLeft == Add(Add(MARGIN_LEFT, ColumnWidth), Inches(5, 10))

draw_content_slide(data) ==
    LET title == TitleBox(data)
        body_top == BodyTop
        body_height == Sub(Sub(SLIDE_HEIGHT, body_top), MARGIN_BOTTOM)
        leftBox == Box(MARGIN_LEFT, body_top, ColumnWidth, body_height)
        rightBox == Box(RightColumnLeft, body_top, ColumnWidth, body_height)
        bodyBox == Box(MARGIN_LEFT, body_top, Sub(Sub(SLIDE_WIDTH, MARGIN_LEFT), MARGIN_RIGHT),
                       body_height)
    IN  IF TruthyBool(data.twoColumn)
        THEN IF data.columns.tag = "none"
             THEN Raised(<<title>>, 200)
             ELSE LET cols == Get(data.columns, << <<>>, <<>> >>).v
                      left == IF Len(cols) > 0 THEN cols[1] ELSE <<>>
                      right == IF Len(cols) > 1 THEN cols[2] ELSE <<>>
                  IN  Drawn(<<title,
                              TextBox("left_column", leftBox, <<EmptyPara>> \o ItemParas(left, FALSE)),
                              TextBox("right_column", rightBox, <<EmptyPara>> \o ItemParas(right, FALSE))>>)
        ELSE LET sub == IF Has(data.subhead)
                        THEN <<Para(apply_formatted_text_to_paragraph(data.subhead), FALSE)>>
                        ELSE <<>>
                 t == Get(data.title, <<>>).v
                 is_agenda_slide == Contains(t, AgendaJa) \/ Contains(t, Agenda)
             IN  IF ~Has(data.points)
                 THEN Drawn(<<title, TextBox("body", bodyBox, <<EmptyPara>> \o sub)>>)
                 ELSE IF data.points.tag = "none"
                 THEN Raised(<<title, TextBox("body", bodyBox, <<EmptyPara>> \o sub)>>, 253)
                 ELSE Drawn(<<title,
                              TextBox("body", bodyBox, <<EmptyPara>> \o sub
                                              \o ItemParas(data.points.v, is_agenda_slide))>>)

draw_compare_slide(data) ==
    LET body_top == BodyTopAfterSubhead(data)
        column_height == Sub(Sub(SLIDE_HEIGHT, body_top), MARGIN_BOTTOM)
        items_top == Add(body_top, Inches(6, 10))
        items_height == Sub(column_height, Inches(6, 10))
        leftItems == Box(MARGIN_LEFT, items_top, ColumnWidth, items_height)
        rightItems == Box(RightColumnLeft, items_top, ColumnWidth, items_height)
        head == <<TitleBox(data)>> \o SubheadBox(data)
                \o <<TextBox("left_title", Box(MARGIN_LEFT, body_top, ColumnWidth, Inches(5, 10)),
                             set_formatted_text_in_frame(Get(data.leftTitle, <<>>), TRUE)),
                     TextBox("right_title", Box(RightColumnLeft, body_top, ColumnWidth, Inches(5, 10)),
                             set_formatted_text_in_frame(Get(data.rightTitle, <<>>), TRUE))>>
        l == Get(data.leftItems, <<>>)
        r == Get(data.rightItems, <<>>)
    IN  IF l.tag = "none"
        THEN Raised(head \o <<TextBox("left_items", leftItems, <<EmptyPara>>)>>, 339)
        ELSE LET leftBox == TextBox("left_items", leftItems, <<EmptyPara>> \o ItemParas(l.v, FALSE))
             IN  IF r.tag = "none"
                 THEN Raised(head \o <<leftBox, TextBox("right_items", rightItems, <<EmptyPara>>)>>, 353)
                 ELSE Drawn(head \o <<leftBox,
                                      TextBox("right_items", rightItems, <<EmptyPara>> \o ItemParas(r.v, FALSE))>>)

step_size == Inches(15, 10)
connector_width == Inches(8, 10)

\* gap_width with one gap counted per connector instead of two
gap_width_OneGapPerConnector(num_steps) ==
    LET available_width == Sub(SLIDE_WIDTH, Mul(MARGIN_LEFT, Whole(2)))
        remaining_width_for_gaps ==
            Sub(Sub(available_width, Mul(Whole(num_steps), step_size)),
                Mul(Whole(num_steps - 1), connector_width))
    IN  IF num_steps > 1
        THEN Div(remaining_width_for_gaps, Whole(num_steps - 1))
        ELSE Inches(0, 1)

\* gap_width for num_steps steps
gap_width(num_steps) ==
    LET available_width == Sub(SLIDE_WIDTH, Mul(MARGIN_LEFT, Whole(2)))
        total_steps_width == Mul(Whole(num_steps), step_size)
        total_connectors_width == Mul(Whole(num_steps - 1), connector_width)
        remaining_width_for_gaps ==
            Sub(Sub(available_width, total_steps_width), total_connectors_width)
    IN  IF num_steps > 1
        THEN Div(remaining_width_for_gaps, Whole((num_steps - 1) * 2))
        ELSE Inches(0, 1)

\* current_x advanced past the connector by one gap instead of two
RECURSIVE StepX_OneGap(_, _)
StepX_OneGap(num_steps, k) ==
    IF k = 1 THEN MARGIN_LEFT
    ELSE Add(Add(StepX_OneGap(num_steps, k - 1), step_size),
             Add(gap_width(num_steps), connector_width))

\* current_x when the loop reaches step k (k from 1)
RECURSIVE StepX(_, _)
StepX(num_steps, k) ==
    IF k = 1 THEN MARGIN_LEFT
    ELSE Add(Add(StepX(num_steps, k - 1), step_size),
             Add(Add(gap_width(num_steps), connector_width), gap_width(num_steps)))

\* the step box of step k and, but for the last step, the arrow after it
StepShapes(steps, k, body_top) ==
    LET num_steps == Len(steps)
        available_vertical_space == Sub(Sub(SLIDE_HEIGHT, body_top), MARGIN_BOTTOM)
        start_y == Add(body_top, Div(Sub(available_vertical_space, step_size), Whole(2)))
        current_x == Add(StepX(num_steps, k), step_size)
        arrow_start_x == Add(current_x, gap_width(num_steps))
        arrow_y == Add(start_y, Div(step_size, Whole(2)))
    IN  <<AutoShape("rectangle", "step",
                    Box(StepX(num_steps, k), start_y, step_size, step_size),
                    <<Para(apply_formatted_text_to_paragraph(Some(steps[k])), FALSE)>>)>>
        \o (IF k < num_steps
            THEN <<AutoShape("right_arrow", "connector",
                             Box(arrow_start_x, Sub(arrow_y, Inches(1, 10)),
                                 connector_width, Inches(2, 10)),
                             <<EmptyPara>>)>>
            ELSE <<>>)

draw_process_slide(data) ==
    LET head == <<TitleBox(data)>> \o SubheadBox(data)
        steps == Get(data.steps, <<>>)
    IN  IF ~Truthy(steps)
        THEN Drawn(head)
        ELSE Drawn(head \o Concat([k \in 1..Len(steps.v) |->
                                      StepShapes(steps.v, k, BodyTopAfterSubhead(data))]))

draw_closing_slide(data) ==
    Drawn(<<TextBox("title",
                    Box(Inches(1, 1), Inches(35, 10), Sub(SLIDE_WIDTH, Inches(2, 1)), Inches(2, 1)),
                    <<Para(PlainText(<<"T", "h", "a", "n", "k", " ", "y", "o", "u">>), TRUE)>>)>>)

\* the paragraph of cell (r, c) of the table: r counts the header row.  A
\* data row is filled while the rows before it fit the grid; firstBad is the
\* first data row longer than the grid (0: none), whose write raises.
TableCell(headers, rows, num_cols, firstBad, r, c) ==
    LET hdr == IF Len(headers) > 0 THEN 1 ELSE 0
        d == r - hdr
    IN  IF hdr = 1 /\ r = 1
        THEN Para(apply_formatted_text_to_paragraph(Some(headers[c])), TRUE)
        ELSE IF c <= Len(rows[d]) /\ (firstBad = 0 \/ d <= firstBad)
        THEN Para(apply_formatted_text_to_paragraph(Some(rows[d][c])), FALSE)
        ELSE EmptyPara

\* num_cols for the header row h and the data rows rs
TableCols(h, rs) == IF Len(h) > 0 THEN Len(h) ELSE IF Len(rs) > 0 THEN Len(rs[1]) ELSE 0

\* the header row not counted
TableRows_NoHeaderRow(h, rs) == Len(rs)

\* num_rows
TableRows(h, rs) == Len(rs) + (IF Len(h) > 0 THEN 1 ELSE 0)

draw_table_slide(data) ==
    LET head == <<TitleBox(data)>> \o SubheadBox(data)
        headers == Get(data.headers, <<>>)
        rows_data == Get(data.rows, <<>>)
    IN  IF ~Truthy(headers) /\ ~Truthy(rows_data)
        THEN Drawn(head)
        ELSE IF rows_data.tag = "none"
        THEN Raised(head, 521)
        ELSE LET h == IF Truthy(headers) THEN headers.v ELSE <<>>
                 rs == IF Truthy(rows_data) THEN rows_data.v ELSE <<>>
                 num_cols == TableCols(h, rs)
                 num_rows == TableRows(h, rs)
                 bad == {d \in 1..Len(rs) : Len(rs[d]) > num_cols}
                 firstBad == IF bad = {} THEN 0 ELSE SetMin(bad)
                 cells == [r \in 1..num_rows |->
                              [c \in 1..num_cols |-> TableCell(h, rs, num_cols, firstBad, r, c)]]
                 table_top == Add(BodyTopAfterSubhead(data), Inches(2, 10))
                 table_width == Sub(SLIDE_WIDTH, Mul(MARGIN_LEFT, Whole(2)))
                 table_height == Sub(Sub(SLIDE_HEIGHT, table_top), MARGIN_BOTTOM)
                 table == TableShape(Box(MARGIN_LEFT, table_top, table_width, table_height),
                                     num_cols, cells)
             IN  IF num_cols = 0 \/ num_rows = 0
                 THEN Drawn(head)
                 ELSE IF firstBad # 0
                 THEN Raised(head \o <<table>>, 556)
                 ELSE Drawn(head \o <<table>>)

Timeline == <<"T", "i", "m", "e", "l", "i", "n", "e">>

\* timeline_y: the vertical centre of the space under the title region
timeline_y(data) ==
    LET body_top == IF Has(data.subhead) THEN Add(BodyTop, Inches(1, 1))
                    ELSE Add(BodyTop, Inches(2, 10))
        available_height == Sub(Sub(SLIDE_HEIGHT, body_top), MARGIN_BOTTOM)
    IN  Add(body_top, Div(available_height, Whole(2)))

\* the width cut into num_milestones + 1 segments, a marker at each inner cut
marker_center_x_InnerCuts(num_milestones, idx) ==
    LET timeline_usable_width == Sub(Sub(SLIDE_WIDTH, MARGIN_LEFT), MARGIN_RIGHT)
    IN  Add(MARGIN_LEFT,
            Mul(Whole(idx + 1), Div(timeline_usable_width, Whole(num_milestones + 1))))

\* marker_center_x of milestone idx (counted from 0) of num_milestones
marker_center_x(num_milestones, idx) ==
    LET timeline_usable_width == Sub(Sub(SLIDE_WIDTH, MARGIN_LEFT), MARGIN_RIGHT)
    IN  IF num_milestones > 1
        THEN Add(MARGIN_LEFT,
                 Mul(Whole(idx), Div(timeline_usable_width, Whole(num_milestones - 1))))
        ELSE Add(MARGIN_LEFT, Div(timeline_usable_width, Whole(2)))

marker_size == Inches(5, 10)
desc_box_width == Inches(35, 10)
desc_box_height == Inches(15, 10)

\* no alternation: every description below the line
DescBelow_Always(idx) == TRUE

\* i % 2 == 0: the description of milestone idx goes below the line
DescBelow(idx) == idx % 2 = 0

\* marker, date label and description of milestone idx (counted from 0)
MilestoneShapes(milestones, idx, y) ==
    LET m == milestones[idx + 1]
        cx == marker_center_x(Len(milestones), idx)
        date_y_above == Sub(y, Inches(7, 10))
        desc_y_below == Add(y, Inches(7, 10))
        desc_y_above == Sub(Sub(y, Inches(7, 10)), desc_box_height)
        current_desc_y == IF DescBelow(idx) THEN desc_y_below ELSE desc_y_above
        current_date_y == IF DescBelow(idx) THEN date_y_above
                          ELSE Sub(current_desc_y, Inches(4, 10))
        desc_x == Sub(cx, Div(desc_box_width, Whole(2)))
    IN  <<AutoShape("oval", "marker",
                    Box(Sub(cx, Div(marker_size, Whole(2))), Sub(y, Div(marker_size, Whole(2))),
                        marker_size, marker_size),
                    <<EmptyPara>>),
          TextBox("milestone_date", Box(desc_x, current_date_y, desc_box_width, Inches(5, 10)),
                  <<Para(PlainText(Get(m.date, <<>>).v), FALSE)>>),
          TextBox("milestone_desc", Box(desc_x, current_desc_y, desc_box_width, desc_box_height),
                  <<Para(PlainText(Get(m.label, <<>>).v), FALSE)>>)>>

draw_timeline_slide(data) ==
    LET wide == Sub(Sub(SLIDE_WIDTH, MARGIN_LEFT), MARGIN_RIGHT)
        y == timeline_y(data)
        head == <<TextBox("title", Box(MARGIN_LEFT, MARGIN_TOP, wide, Inches(1, 1)),
                          set_formatted_text_in_frame(Get(data.title, Timeline), TRUE))>>
                \o (IF Has(data.subhead)
                    THEN <<TextBox("subhead", Box(MARGIN_LEFT, BodyTop, wide, Inches(8, 10)),
                                   set_formatted_text_in_frame(data.subhead, FALSE))>>
                    ELSE <<>>)
                \o <<AutoShape("rectangle", "baseline",
                               Box(MARGIN_LEFT, Sub(y, Inches(25, 1000)),
                                   Sub(SLIDE_WIDTH, Mul(MARGIN_LEFT, Whole(2))), Inches(5, 100)),
                               <<EmptyPara>>)>>
        milestones == Get(data.milestones, <<>>)
    IN  IF milestones.tag = "none"
        THEN Raised(head, 617)
        ELSE IF Len(milestones.v) = 0
        THEN Drawn(head)
        ELSE Drawn(head \o Concat([k \in 1..Len(milestones.v) |->
                                      MilestoneShapes(milestones.v, k - 1, y)]))

\* title pane and items pane of lane k (k from 1) of num_lanes
\* lanes of a fixed height
lane_height_Fixed(num_lanes, body_top) == Inches(2, 1)

\* lane_height = (SLIDE_HEIGHT - body_top - MARGIN_BOTTOM) / num_lanes
lane_height(num_lanes, body_top) ==
    Div(Sub(Sub(SLIDE_HEIGHT, body_top), MARGIN_BOTTOM), Whole(num_lanes))

LaneShapes(lanes, k, body_top) ==
    LET lane == lanes[k]
        h == lane_height(Len(lanes), body_top)
        lane_width == Sub(Sub(SLIDE_WIDTH, MARGIN_LEFT), MARGIN_RIGHT)
        current_y == Add(body_top, Mul(Whole(k - 1), h))
    IN  <<TextBox("lane_title", Box(MARGIN_LEFT, current_y, Inches(2, 1), h),
                  <<Para(PlainText(Get(lane.title, <<>>).v), TRUE)>>),
          TextBox("lane_items",
                  Box(Add(MARGIN_LEFT, Inches(22, 10)), current_y,
                      Sub(lane_width, Inches(22, 10)), h),
                  <<EmptyPara>> \o ItemParas(Get(lane.items, <<>>).v, FALSE))>>

draw_diagram_slide(data) ==
    LET head == <<TitleBox(data)>> \o SubheadBox(data)
        lanes == Get(data.lanes, <<>>)
    IN  IF ~Truthy(lanes)
        THEN Drawn(head)
        ELSE Drawn(head \o Concat([k \in 1..Len(lanes.v) |->
                                      LaneShapes(lanes.v, k, BodyTopAfterSubhead(data))]))

\* the clamp letting 4 through as well
CardColumns_UpToFour(f) ==
    LET num_columns == IF f.tag = "missing" THEN Some(2) ELSE f
    IN  IF num_columns.tag = "val" /\ num_columns.v \in {2, 3, 4} THEN num_columns.v ELSE 2

\* num_columns of draw_cards_slide; f holds an int, None, a value of another
\* type (tag "other": a str, a float that is no whole number) or nothing
CardColumns(f) ==
    LET num_columns == IF f.tag = "missing" THEN Some(2) ELSE f
    IN  IF num_columns.tag = "val" /\ num_columns.v \in {2, 3} THEN num_columns.v ELSE 2

\* the paragraphs of one card: a str item, or a dict with title and desc
CardParas(item) ==
    IF item.isstr
    THEN <<EmptyPara, Para(apply_formatted_text_to_paragraph(Some(item.s)), TRUE)>>
    ELSE <<EmptyPara, Para(apply_formatted_text_to_paragraph(Get(item.title, <<>>)), TRUE)>>
         \o (IF Truthy(Get(item.desc, <<>>))
             THEN <<Para(apply_formatted_text_to_paragraph(item.desc), TRUE)>>
             ELSE <<>>)

gap_between_cards == Inches(3, 10)
card_height == Inches(25, 10)

\* the box of card idx (counted from 0) in a grid of num_columns columns
CardBox(num_columns, idx, body_top) ==
    LET total_width == Sub(SLIDE_WIDTH, Mul(MARGIN_LEFT, Whole(2)))
        card_width == Div(Sub(total_width, Mul(Whole(num_columns - 1), gap_between_cards)),
                          Whole(num_columns))
        start_y == Add(body_top, Inches(5, 10))
        row_idx == idx \div num_columns
        col_idx == idx % num_columns
        card_left == Add(MARGIN_LEFT, Mul(Whole(col_idx), Add(card_width, gap_between_cards)))
        card_top == Add(start_y, Mul(Whole(row_idx), Add(card_height, gap_between_cards)))
    IN  Box(card_left, card_top, card_width, card_height)

CARD_COLORS == <<GOOGLE_BLUE, RED, ORANGE, GOOGLE_BLUE, GREEN, RED>>

\* every card in the first colour
CardFill_NoCycle(idx) == CARD_COLORS[1]

\* CARD_COLORS[i % len(CARD_COLORS)] for card idx (counted from 0)
CardFill(idx) == CARD_COLORS[(idx % Len(CARD_COLORS)) + 1]

\* the rounded rectangle of a card with its fill colour
CardShape(box, fill, paras) ==
    [shape |-> "rounded_rectangle", role |-> "card", box |-> box, paras |-> paras,
     cells |-> <<>>, fill |-> fill]

draw_cards_slide(data) ==
    LET head == <<TitleBox(data)>> \o SubheadBox(data)
        items == Get(data.items, <<>>)
    IN  IF ~Truthy(items)
        THEN Drawn(head)
        ELSE Drawn(head \o [k \in 1..Len(items.v) |->
                               CardShape(CardBox(CardColumns(data.columns), k - 1,
                                                 BodyTopAfterSubhead(data)),
                                         CardFill(k - 1),
                                         CardParas(items.v[k]))])

item_height == Inches(8, 10)
progress_bar_height == Inches(2, 10)
progress_bar_width == Inches(8, 1)

\* the fill with percent clamped to 0..100
fill_width_Clamped(percent) ==
    LET p == IF percent < 0 THEN 0 ELSE IF percent > 100 THEN 100 ELSE percent
    IN  Mul(progress_bar_width, Div(Whole(p), Whole(100)))

\* fill_width = progress_bar_width * (percent / 100.0)
fill_width(percent) == Mul(progress_bar_width, Div(Whole(percent), Whole(100)))

\* label, background bar, foreground bar and percentage of item k (k from 1)
ProgressShapes(items, k, body_top) ==
    LET item == items[k]
        percent == IF item.percent.tag = "missing" THEN 0 ELSE item.percent.v
        current_y == Add(Add(body_top, Inches(5, 10)),
                         Mul(Whole(k - 1), Add(item_height, Inches(2, 10))))
        bar_bg_left == Add(MARGIN_LEFT, Inches(45, 10))
        bar_top == Add(current_y, Div(Sub(item_height, progress_bar_height), Whole(2)))
    IN  <<TextBox("label", Box(MARGIN_LEFT, current_y, Inches(4, 1), item_height),
                  <<Para(PlainText(Get(item.label, <<>>).v), TRUE)>>),
          AutoShape("rectangle", "bar_background",
                    Box(bar_bg_left, bar_top, progress_bar_width, progress_bar_height),
                    <<EmptyPara>>),
          AutoShape("rectangle", "bar_fill",
                    Box(bar_bg_left, bar_top, fill_width(percent), progress_bar_height),
                    <<EmptyPara>>),
          TextBox("percent",
                  Box(Add(Add(bar_bg_left, progress_bar_width), Inches(2, 10)), current_y,
                      Inches(1, 1), item_height),
                  <<Para(PlainText(IntStr(percent) \o <<"%">>), FALSE)>>)>>

draw_progress_slide(data) ==
    LET head == <<TitleBox(data)>> \o SubheadBox(data)
        items == Get(data.items, <<>>)
    IN  IF ~Truthy(items)
        THEN Drawn(head)
        ELSE Drawn(head \o Concat([k \in 1..Len(items.v) |->
                                      ProgressShapes(items.v, k, BodyTopAfterSubhead(data))]))

(***************************************************************************)
(* The assembler.                                                          *)
(***************************************************************************)
\* the keys of slide_draw_functions
KnownTypes == {"title", "section", "content", "compare", "process", "closing",
               "table", "timeline", "diagram", "cards", "progress"}

\* slide_draw_functions[slide_type](slide, slide_data)
slide_draw_functions(slide_type, data) ==
    CASE slide_type = "title" -> draw_title_slide(data)
      [] slide_type = "section" -> draw_section_slide(data)
      [] slide_type = "content" -> draw_content_slide(data)
      [] slide_type = "compare" -> draw_compare_slide(data)
      [] slide_type = "process" -> draw_process_slide(data)
      [] slide_type = "closing" -> draw_closing_slide(data)
      [] slide_type = "table" -> draw_table_slide(data)
      [] slide_type = "timeline" -> draw_timeline_slide(data)
      [] slide_type = "diagram" -> draw_diagram_slide(data)
      [] slide_type = "cards" -> draw_cards_slide(data)
      [] slide_type = "progress" -> draw_progress_slide(data)

\* slide_data.get("type"), written as the f-string of line 1014 writes it
SlideType(data) == IF data.type.tag = "val" THEN data.type.v ELSE "None"

\* lines 1017-1021: the shapes of the slide
Dispatch(data) ==
    IF SlideType(data) \in KnownTypes
    THEN slide_draw_functions(SlideType(data), data)
    ELSE Drawn(<<>>)

\* the guard with the comparison off by one (>= for >)
GuardField_OffByOne(f) ==
    IF f.tag = "val" /\ Len(f.v) >= GuardCeiling
    THEN Some(SubStr(f.v, 1, GuardCeiling) \o Ellipsis)
    ELSE f

\* lines 1002-1005 on one field: the field afterwards
GuardField(f) ==
    IF f.tag = "val" /\ Len(f.v) > GuardCeiling
    THEN Some(SubStr(f.v, 1, GuardCeiling) \o Ellipsis)
    ELSE f

\* the record after the guard of lines 1002-1005 and the line that raised:
\* len(None) raises TypeError before the field is touched
Guard(data) ==
    IF data.title.tag = "none"
    THEN [data |-> data, err |-> 1002]
    ELSE LET d1 == [data EXCEPT !.title = GuardField(@)]
         IN  IF d1.notes.tag = "none"
             THEN [data |-> d1, err |-> 1004]
             ELSE [data |-> [d1 EXCEPT !.notes = GuardField(@)], err |-> 0]

\* the characters of a type value as the f-string of line 1014 writes them
TypeChars(t) ==
    CASE t = "title" -> <<"t", "i", "t", "l", "e">>
      [] t = "section" -> <<"s", "e", "c", "t", "i", "o", "n">>
      [] t = "content" -> <<"c", "o", "n", "t", "e", "n", "t">>
      [] t = "compare" -> <<"c", "o", "m", "p", "a", "r", "e">>
      [] t = "process" -> <<"p", "r", "o", "c", "e", "s", "s">>
      [] t = "closing" -> <<"c", "l", "o", "s", "i", "n", "g">>
      [] t = "table" -> <<"t", "a", "b", "l", "e">>
      [] t = "timeline" -> <<"t", "i", "m", "e", "l", "i", "n", "e">>
      [] t = "diagram" -> <<"d", "i", "a", "g", "r", "a", "m">>
      [] t = "cards" -> <<"c", "a", "r", "d", "s">>
      [] t = "progress" -> <<"p", "r", "o", "g", "r", "e", "s", "s">>
      [] t = "bogus" -> <<"b", "o", "g", "u", "s">>
      [] t = "None" -> <<"N", "o", "n", "e">>

\* the name without the ordinal
SlideName_NoOrdinal(k, data) ==
    <<"S", "l", "i", "d", "e", "_">> \o <<"_">> \o TypeChars(SlideType(data))

\* slide.name of the k-th slide: f"Slide_{i+1}_{slide_type}"
SlideName(k, data) ==
    <<"S", "l", "i", "d", "e", "_">> \o IntStr(k) \o <<"_">> \o TypeChars(SlideType(data))

\* the slide the loop body adds for the (guarded) record data at position k
BuildSlide(k, data) ==
    LET d == Dispatch(data)
    IN  [slide |-> [name |-> SlideName(k, data),
                    shapes |-> d.shapes,
                    notes |-> IF d.err = 0 THEN add_speaker_notes(Get(data.notes, <<>>)) ELSE Missing],
         err |-> d.err]

(***************************************************************************)
(* The slide records create_presentation is run on.  A record is a dict    *)
(* over the keys of the slide schema (src/main.py, lines 33-109).          *)
(***************************************************************************)
Blank ==
    [type |-> Missing, title |-> Missing, notes |-> Missing, date |-> Missing,
     sectionNo |-> Missing, subhead |-> Missing, points |-> Missing,
     twoColumn |-> Missing, columns |-> Missing, images |-> Missing,
     leftTitle |-> Missing, rightTitle |-> Missing, leftItems |-> Missing,
     rightItems |-> Missing, steps |-> Missing, milestones |-> Missing,
     lanes |-> Missing, items |-> Missing, headers |-> Missing, rows |-> Missing]

LongLen == GuardCeiling + 1     \* a text one character over the ceiling

sT == <<"T">>
sA == <<"A">>
sB == <<"*", "*", "B", "*", "*">>
sN == <<"n", "o", "t", "e">>
sDate == <<"2", "0", "2", "5", ".", "0", "1", ".", "0", "1">>
sLong == Rep("a", LongLen)
sCeil == Rep("a", GuardCeiling)
sVeryLong == Rep("b", LongLen + 3)

Kind(k) == [Blank EXCEPT !.type = Some(k), !.title = Some(sT)]

TitleRecords ==
    {[Kind("title") EXCEPT !.date = Some(sDate), !.title = Some(tn[1]), !.notes = tn[2]] :
        tn \in {<<sT, Missing>>, <<sT, None>>, <<sT, Some(sN)>>,
                <<sLong, Some(sLong)>>, <<sCeil, Some(sCeil)>>}}

SectionRecords ==
    {[Kind("section") EXCEPT !.title = Some(<<"1", ".", " ", "A">>), !.sectionNo = n] :
        n \in {Missing, None, Some(2)}}

ClosingRecords ==
    {[Blank EXCEPT !.type = Some("closing")],
     [Blank EXCEPT !.type = Some("closing"), !.notes = None],
     [Blank EXCEPT !.type = Some("closing"), !.title = Some(sT), !.notes = Some(sN),
                   !.points = Some(<<sA>>)]}

ContentRecords ==
    {[Kind("content") EXCEPT !.subhead = Some(sA), !.points = Some(<<sA, sB>>)],
     Kind("content"),
     [Kind("content") EXCEPT !.notes = Some(sN), !.subhead = None, !.points = None,
                             !.twoColumn = None, !.columns = None, !.images = None],
     [Kind("content") EXCEPT !.subhead = None, !.points = Some(<<sA>>)],
     [Kind("content") EXCEPT !.twoColumn = Some(TRUE), !.columns = Some(<< <<sA, sB>>, <<sA>> >>)],
     [Kind("content") EXCEPT !.twoColumn = Some(TRUE)],
     [Kind("content") EXCEPT !.twoColumn = Some(TRUE), !.columns = None],
     [Kind("content") EXCEPT !.title = Some(Agenda), !.points = Some(<<sVeryLong>>)]}

CompareBase ==
    [Kind("compare") EXCEPT !.leftTitle = Some(sA), !.rightTitle = Some(sB),
                            !.leftItems = Some(<<sA>>), !.rightItems = Some(<<sA, sB>>)]

CompareRecords ==
    {CompareBase, [CompareBase EXCEPT !.subhead = None]}

ProcessRecords ==
    {[Kind("process") EXCEPT !.steps = Some(<<sA, sB>>)],
     [Kind("process") EXCEPT !.steps = Some(<<>>), !.subhead = Some(sA)]}

Milestone(l, d) == [label |-> Some(l), date |-> Some(d)]

TimelineRecords ==
    {[Kind("timeline") EXCEPT !.milestones = Some(ms)] :
        ms \in {<<>>, <<Milestone(sA, sDate), Milestone(sVeryLong, sDate)>>}}

Lane(t, its) == [title |-> Some(t), items |-> Some(its)]

DiagramRecords ==
    {[Kind("diagram") EXCEPT !.lanes = Some(ls)] : ls \in {<<>>, <<Lane(sA, <<sA, sB>>)>>}}

CardStr(x) == [isstr |-> TRUE, s |-> x, title |-> Missing, desc |-> Missing]
CardDict(t, d) == [isstr |-> FALSE, s |-> <<>>, title |-> t, desc |-> d]

CardsRecords ==
    {[Kind("cards") EXCEPT !.items = Some(<<CardStr(sA), CardDict(Some(sA), Some(sB)),
                                            CardDict(Some(sA), Missing)>>), !.columns = c] :
        c \in {None, Some(3)}}
    \cup {[Kind("cards") EXCEPT !.items = Some(<<>>)]}

TableRecords ==
    {[Kind("table") EXCEPT !.headers = Some(hr[1]), !.rows = Some(hr[2])] :
        hr \in {<< <<>>, <<>> >>,
                << <<sA, sB>>, << <<sA, sA>>, <<sB>> >> >>,
                << <<sA, sB>>, << <<sA, sA, sA>> >> >>}}

ProgressItem(l, pct) == [label |-> Some(l), percent |-> Some(pct)]

ProgressRecords ==
    {[Kind("progress") EXCEPT !.items = Some(its)] :
        its \in {<<>>, <<ProgressItem(sA, 50), ProgressItem(sB, 150)>>}}

\* records whose type no layout function is registered for
UnknownRecords ==
    {[Blank EXCEPT !.type = Some("bogus"), !.notes = Some(sN)],
     [Blank EXCEPT !.title = Some(sT)],
     [Blank EXCEPT !.type = Some("bogus"), !.notes = None]}

Records ==
    TitleRecords \cup SectionRecords \cup ClosingRecords \cup ContentRecords
    \cup CompareRecords \cup ProcessRecords \cup TimelineRecords \cup DiagramRecords
    \cup CardsRecords \cup TableRecords \cup ProgressRecords \cup UnknownRecords

Decks == UNION {[1..n -> Records] : n \in 0..MaxSlides}

(***************************************************************************)
(* create_presentation(slides_data).                                       *)
(***************************************************************************)
Init ==
    /\ given \in Decks
    /\ slides_data = given
    /\ i = 0
    /\ pc = "loop"
    /\ err = 0
    /\ prs = <<>>
    /\ text = <<>>
    /\ runs = <<>>
    /\ ppc = "idle"
    /\ calls = <<>>
    /\ docs = <<>>
    /\ ep = <<>>

\* one pass of the for loop of line 998: guard, add_slide, name, dispatch,
\* notes.  An exception ends the call; the slide it was raised on stays in
\* the (lost) document when add_slide had run.
RenderSlide ==
    /\ pc = "loop"
    /\ i < Len(slides_data)
    /\ \E g \in {Guard(slides_data[i + 1])} :
           /\ slides_data' = [slides_data EXCEPT ![i + 1] = g.data]
           /\ IF g.err # 0
              THEN pc' = "error" /\ err' = g.err /\ prs' = prs /\ i' = i
              ELSE \E b \in {BuildSlide(i + 1, g.data)} :
                       IF b.err # 0
                       THEN pc' = "error" /\ err' = b.err /\ prs' = Append(prs, b.slide) /\ i' = i
                       ELSE pc' = "loop" /\ err' = 0 /\ prs' = Append(prs, b.slide) /\ i' = i + 1
    /\ UNCHANGED <<given, text, runs, ppc, calls, docs, ep>>

\* line 1026
Return ==
    /\ pc = "loop"
    /\ i = Len(slides_data)
    /\ pc' = "done"
    /\ UNCHANGED <<slides_data, given, i, err, prs, text, runs, ppc, calls, docs, ep>>

Next == RenderSlide \/ Return

Spec == Init /\ [][Next]_vars

(***************************************************************************)
(* create_presentation on one record, the record drawn from the shapes of  *)
(* input the layout arithmetic depends on: how many steps, milestones,     *)
(* cards, progress items, header and row cells there are, whether a        *)
(* subhead is given, the cards columns value and the percent values.       *)
(***************************************************************************)
\* a value of a type the schema does not name (a str where an int is meant,
\* a float that is no whole number)
Other == [tag |-> "other"]

Subheads == {Missing, Some(sA)}

\* numbers of steps: the small ones and one whose boxes and arrows are wider
\* together than the span between the margins
StepCounts == (0..MaxSteps) \cup {7}

ProcessLayouts ==
    {[Kind("process") EXCEPT !.steps = Some([k \in 1..n |-> sA]), !.subhead = sh] :
        n \in StepCounts, sh \in Subheads}

TimelineLayouts ==
    {[Kind("timeline") EXCEPT !.milestones = Some([k \in 1..n |-> Milestone(sA, sDate)]),
                              !.subhead = sh] :
        n \in 0..MaxMilestones, sh \in Subheads}

\* a row of n cells
Row(n) == [c \in 1..n |-> sA]

TableLayouts ==
    {[Kind("table") EXCEPT !.headers = Some(Row(h)), !.rows = Some([r \in 1..Len(ls) |-> Row(ls[r])])] :
        h \in 0..MaxCols, ls \in UNION {[1..n -> 0..(MaxCols + 1)] : n \in 0..MaxRows}}

CardsLayouts ==
    {[Kind("cards") EXCEPT !.items = Some([k \in 1..n |-> CardStr(sA)]), !.columns = c] :
        n \in 0..MaxCards,
        c \in {Missing, None, Other} \cup {Some(v) : v \in 0..4}}

Percents == {-10, 0, 50, 100, 150}

ProgressLayouts ==
    {[Kind("progress") EXCEPT !.items = Some([k \in 1..Len(ps) |-> ProgressItem(sA, ps[k])]),
                              !.subhead = sh] :
        ps \in UNION {[1..n -> Percents] : n \in 0..MaxBars}, sh \in Subheads}

MaxTitleLen == 4

\* characters the prefix pattern of line 139 tells apart: a digit, a letter,
\* the period and the space
TitleAlphabet == {"3", "D", ".", " "}

SectionLayouts ==
    {[Kind("section") EXCEPT !.title = Some(t), !.sectionNo = Some(2)] :
        t \in UNION {[1..n -> TitleAlphabet] : n \in 0..MaxTitleLen}}

MaxLanes == 3

\* numbers of lanes: the small ones and one that does not divide the body
\* height in EMU
LaneCounts == (0..MaxLanes) \cup {7}

DiagramLayouts ==
    {[Kind("diagram") EXCEPT !.lanes = Some([k \in 1..n |->
                                               [title |-> Some(sA), items |-> its]]),
                             !.subhead = sh] :
        n \in LaneCounts, its \in {Missing, Some(<<>>), Some(<<sA, sB>>)}, sh \in Subheads}

MaxItems == 2

\* lists of up to MaxItems item texts
ItemLists == UNION {[1..n -> {sA, sB}] : n \in 0..MaxItems}

ContentLayouts ==
    {[Kind("content") EXCEPT !.twoColumn = Some(TRUE), !.columns = c] :
        c \in {Missing, None, Some(<<>>)}
               \cup {Some(<<l>>) : l \in ItemLists}
               \cup {Some(<<l, r>>) : l \in ItemLists, r \in ItemLists}}

LayoutRecords ==
    ProcessLayouts \cup TimelineLayouts \cup TableLayouts \cup CardsLayouts \cup ProgressLayouts
    \cup SectionLayouts \cup ContentLayouts \cup DiagramLayouts

InitLayout ==
    /\ given \in {<<r>> : r \in LayoutRecords}
    /\ slides_data = given
    /\ i = 0
    /\ pc = "loop"
    /\ err = 0
    /\ prs = <<>>
    /\ text = <<>>
    /\ runs = <<>>
    /\ ppc = "idle"
    /\ calls = <<>>
    /\ docs = <<>>
    /\ ep = <<>>

SpecLayout == InitLayout /\ [][Next]_vars

(***************************************************************************)
(* The parser on its own: every text up to MaxTextLen over Alphabet.       *)
(***************************************************************************)
Alphabet == {"a", "*", "[", "]", "\n"}

Texts == UNION {[1..n -> Alphabet] : n \in 0..MaxTextLen}

InitParse ==
    /\ text \in Texts
    /\ runs = <<>>
    /\ ppc = "ready"
    /\ slides_data = <<>>
    /\ given = <<>>
    /\ i = 0
    /\ pc = "idle"
    /\ err = 0
    /\ prs = <<>>
    /\ calls = <<>>
    /\ docs = <<>>
    /\ ep = <<>>

Parse ==
    /\ ppc = "ready"
    /\ runs' = apply_formatted_text_to_paragraph(Some(text))
    /\ ppc' = "parsed"
    /\ UNCHANGED <<text, slides_data, given, i, pc, err, prs, calls, docs, ep>>

NextParse == Parse

SpecParse == InitParse /\ [][NextParse]_vars

(***************************************************************************)
(* The parser on texts made of whole markers and letters, which reach      *)
(* texts with several marker pairs.                                        *)
(***************************************************************************)
MaxTokens == 7

Tokens == {Stars, Opens, Closes, <<"a">>}

TokenTexts == {Concat(ts) : ts \in UNION {[1..n -> Tokens] : n \in 0..MaxTokens}}

InitTokens ==
    /\ text \in TokenTexts
    /\ runs = <<>>
    /\ ppc = "ready"
    /\ slides_data = <<>>
    /\ given = <<>>
    /\ i = 0
    /\ pc = "idle"
    /\ err = 0
    /\ prs = <<>>
    /\ calls = <<>>
    /\ docs = <<>>
    /\ ep = <<>>

SpecTokens == InitTokens /\ [][NextParse]_vars

\* create_presentation(slides_data) as one call: the outcome after the
\* records from position k on, doc the slides added so far
RECURSIVE create_presentation(_, _, _)

\* lines 1009-1024 of pass k, b the slide as built: an exception ends the
\* call, the slide already added; otherwise the loop goes on
AfterBuild(sd, k, doc, b) ==
    IF b.err # 0
    THEN [pc |-> "error", err |-> b.err, prs |-> Append(doc, b.slide), slides_data |-> sd]
    ELSE create_presentation(sd, k + 1, Append(doc, b.slide))

\* lines 1001-1006 of pass k, g the outcome of the length guard and sd the
\* list with the guarded record written back
AfterGuard(sd, k, doc, g) ==
    IF g.err # 0
    THEN [pc |-> "error", err |-> g.err, prs |-> doc, slides_data |-> sd]
    ELSE AfterBuild(sd, k, doc, BuildSlide(k, g.data))

create_presentation(sd, k, doc) ==
    IF k > Len(sd)
    THEN [pc |-> "done", err |-> 0, prs |-> doc, slides_data |-> sd]
    ELSE AfterGuard([sd EXCEPT ![k] = Guard(sd[k]).data], k, doc, Guard(sd[k]))

(***************************************************************************)
(* Concurrent callers of create_presentation, each on a list of its own.   *)
(* A call's locals (slides_data, i, slide) and the Presentation it made at *)
(* line 977 belong to the call; the module has no mutable global (lines    *)
(* 11-37 bind constants).  A pass of the loop is taken in three steps, so  *)
(* that the calls interleave inside a pass: the guard (lines 1002-1005),   *)
(* add_slide and the name (lines 1010-1014), and the dispatch and notes    *)
(* (lines 1017-1024).                                                      *)
(***************************************************************************)
Callers == {"a", "b"}

MaxConcSlides == 2

ConcRecords ==
    {[Kind("title") EXCEPT !.date = Some(sDate), !.title = Some(sLong), !.notes = Some(sN)],
     [Kind("table") EXCEPT !.headers = Some(<<sA, sB>>), !.rows = Some(<< <<sA, sA, sA>> >>)],
     [Blank EXCEPT !.type = Some("closing")]}

ConcDecks == UNION {[1..n -> ConcRecords] : n \in 0..MaxConcSlides}

\* the document with every call writing into one Presentation
DocOf_Shared(c) == "a"

\* the Presentation of call c: prs = Presentation() is a local of the call
DocOf(c) == c

InitConc ==
    /\ \E ds \in [Callers -> ConcDecks] :
           calls = [c \in Callers |->
                       [given |-> ds[c], slides_data |-> ds[c], i |-> 0,
                        pc |-> "guard", err |-> 0, slide |-> 0]]
    /\ docs = [c \in Callers |-> <<>>]
    /\ ep = <<>>
    /\ slides_data = <<>>
    /\ given = <<>>
    /\ i = 0
    /\ pc = "idle"
    /\ err = 0
    /\ prs = <<>>
    /\ text = <<>>
    /\ runs = <<>>
    /\ ppc = "idle"

\* lines 998-1005: the next record and its length guard
CallGuard(c) ==
    LET st == calls[c]
    IN  /\ st.pc = "guard"
        /\ st.i < Len(st.slides_data)
        /\ \E g \in {Guard(st.slides_data[st.i + 1])} :
               calls' = [calls EXCEPT ![c] =
                           [st EXCEPT !.slides_data = [@ EXCEPT ![st.i + 1] = g.data],
                                      !.pc = IF g.err # 0 THEN "error" ELSE "add",
                                      !.err = g.err]]
        /\ UNCHANGED <<docs, slides_data, given, i, pc, err, prs, text, runs, ppc, ep>>

\* lines 1009-1014: add_slide and slide.name
CallAddSlide(c) ==
    LET st == calls[c]
        d == DocOf(c)
    IN  /\ st.pc = "add"
        /\ docs' = [docs EXCEPT ![d] =
                       Append(@, [name |-> SlideName(st.i + 1, st.slides_data[st.i + 1]),
                                  shapes |-> <<>>, notes |-> Missing])]
        /\ calls' = [calls EXCEPT ![c] = [st EXCEPT !.pc = "draw", !.slide = Len(docs[d]) + 1]]
        /\ UNCHANGED <<slides_data, given, i, pc, err, prs, text, runs, ppc, ep>>

\* lines 1017-1024: the layout function and the notes, on the call's slide
CallDraw(c) ==
    LET st == calls[c]
        d == DocOf(c)
    IN  /\ st.pc = "draw"
        /\ \E b \in {BuildSlide(st.i + 1, st.slides_data[st.i + 1])} :
               /\ docs' = [docs EXCEPT ![d][st.slide] = b.slide]
               /\ calls' = [calls EXCEPT ![c] =
                               IF b.err # 0
                               THEN [st EXCEPT !.pc = "error", !.err = b.err]
                               ELSE [st EXCEPT !.pc = "guard", !.i = @ + 1]]
        /\ UNCHANGED <<slides_data, given, i, pc, err, prs, text, runs, ppc, ep>>

\* line 1026
CallReturn(c) ==
    LET st == calls[c]
    IN  /\ st.pc = "guard"
        /\ st.i = Len(st.slides_data)
        /\ calls' = [calls EXCEPT ![c] = [st EXCEPT !.pc = "done"]]
        /\ UNCHANGED <<docs, slides_data, given, i, pc, err, prs, text, runs, ppc, ep>>

NextConc ==
    \E c \in Callers : CallGuard(c) \/ CallAddSlide(c) \/ CallDraw(c) \/ CallReturn(c)

SpecConc == InitConc /\ [][NextConc]_vars

(***************************************************************************)
(* The generate_from_text endpoint (src/main.py, lines 377-449), from the  *)
(* object json.loads returned for the model's answer.  A request goes      *)
(* through validation, the reshaping of the slide dicts, create_           *)
(* presentation, save and the upload; any exception ends it with status    *)
(* 500.  The language model, save and the storage client are outside the   *)
(* repository: each either succeeds or raises.                             *)
(***************************************************************************)
MaxPayloadSlides == 2

\* the fields a slide class must carry besides type
RequiredFields(kind) ==
    CASE kind = "title" -> {"title", "date"}
      [] kind = "section" -> {"title"}
      [] kind = "closing" -> {}
      [] kind = "content" -> {"title"}
      [] kind = "compare" -> {"title", "leftTitle", "rightTitle", "leftItems", "rightItems"}
      [] kind = "process" -> {"title", "steps"}
      [] kind = "timeline" -> {"title", "milestones"}
      [] kind = "diagram" -> {"title", "lanes"}
      [] kind = "cards" -> {"title", "items"}
      [] kind = "table" -> {"title", "headers", "rows"}
      [] kind = "progress" -> {"title", "items"}

\* the Optional fields of a slide class
OptionalFields(kind) ==
    {"notes"} \cup
    (CASE kind = "title" -> {}
       [] kind = "section" -> {"sectionNo"}
       [] kind = "closing" -> {}
       [] kind = "content" -> {"subhead", "points", "twoColumn", "columns", "images"}
       [] kind = "compare" -> {"subhead", "images"}
       [] kind = "process" -> {"subhead", "images"}
       [] kind = "timeline" -> {"subhead", "images"}
       [] kind = "diagram" -> {"subhead", "images"}
       [] kind = "cards" -> {"subhead", "columns", "images"}
       [] kind = "table" -> {"subhead"}
       [] kind = "progress" -> {"subhead"})

\* validation that does not look at the required fields
SlideValid_NoRequired(r) ==
    /\ SlideType(r) \in KnownTypes
    /\ \A f \in OptionalFields(SlideType(r)) : r[f].tag \in {"missing", "none", "val"}
    /\ (SlideType(r) = "cards" /\ r.columns.tag = "val") => r.columns.v \in {2, 3}

\* r validates as a member of the Slide union: its type names a class, the
\* required fields of the class hold values of the declared type, the
\* optional ones are absent, null or of the declared type
SlideValid(r) ==
    /\ SlideType(r) \in KnownTypes
    /\ \A f \in RequiredFields(SlideType(r)) : r[f].tag = "val"
    /\ \A f \in OptionalFields(SlideType(r)) : r[f].tag \in {"missing", "none", "val"}
    /\ (SlideType(r) = "cards" /\ r.columns.tag = "val") => r.columns.v \in {2, 3}

\* PresentationPayload(**data) after the author default of lines 363-365
PayloadValid(data) ==
    /\ data.title.tag = "val"
    /\ \A k \in 1..Len(data.slides) : SlideValid(data.slides[k])

\* .dict() of a validated slide: the fields of its class, an optional field
\* that was not given as None; keys the class does not declare are dropped
SlideDict(r) ==
    [f \in DOMAIN r |->
        IF f = "type" \/ f \in RequiredFields(SlideType(r)) THEN r[f]
        ELSE IF f \in OptionalFields(SlideType(r))
             THEN (IF r[f].tag = "missing" THEN None ELSE r[f])
             ELSE Missing]

today_date_str == <<"2", "0", "2", "5", ".", "0", "1", ".", "0", "2">>

\* lines 395-405: the items of a cards slide
ReshapeItems(items) ==
    LET pick(it) == IF ~it.isstr /\ it.title.tag # "missing" THEN <<it>>
                    ELSE IF it.isstr THEN <<[isstr |-> FALSE, s |-> <<>>, title |-> Some(it.s),
                                             desc |-> Missing]>>
                    ELSE <<>>
    IN  Concat([k \in 1..Len(items) |-> pick(items[k])])

\* lines 386-407: one slide dict as it is handed to create_presentation
Reshape(r) ==
    IF SlideType(r) = "title" THEN [r EXCEPT !.date = Some(today_date_str)]
    ELSE IF SlideType(r) = "cards" /\ r.items.tag # "missing"
    THEN [r EXCEPT !.items = Some(ReshapeItems(r.items.v))]
    ELSE r

\* slide dicts the language model may answer with
EpRecords ==
    {[Kind("title") EXCEPT !.date = Some(sDate), !.notes = Some(sN)],
     [Kind("title") EXCEPT !.date = Some(sDate)],
     [Blank EXCEPT !.type = Some("closing"), !.notes = Some(sN), !.title = Some(sT)],
     [Kind("process") EXCEPT !.steps = Some(<<sA, sB>>), !.notes = Some(sN)],
     [Kind("cards") EXCEPT !.items = Some(<<CardStr(sA), CardDict(Some(sA), Some(sB))>>),
                           !.notes = Some(sN), !.columns = Some(3)],
     [Kind("title") EXCEPT !.notes = Some(sN)],
     [Kind("process") EXCEPT !.steps = Other, !.notes = Some(sN)],
     [Kind("cards") EXCEPT !.items = Some(<<CardStr(sA)>>), !.notes = Some(sN),
                           !.columns = Some(4)],
     [Blank EXCEPT !.type = Some("bogus"), !.notes = Some(sN)],
     [Blank EXCEPT !.title = Some(sT), !.notes = Some(sN)]}

EpPayloads ==
    {[title |-> t, author |-> a, slides |-> ss] :
        t \in {Some(sT), Missing}, a \in {Some(sA), Missing},
        ss \in UNION {[1..n -> EpRecords] : n \in 0..MaxPayloadSlides}}

InitEndpoint ==
    /\ \E data \in EpPayloads :
           ep = [pc |-> "start", data |-> data, slides |-> <<>>, called |-> FALSE,
                 doc |-> <<>>, err |-> 0, saved |-> FALSE, uploaded |-> FALSE, status |-> 0]
    /\ calls = <<>>
    /\ docs = <<>>
    /\ slides_data = <<>>
    /\ given = <<>>
    /\ i = 0
    /\ pc = "idle"
    /\ err = 0
    /\ prs = <<>>
    /\ text = <<>>
    /\ runs = <<>>
    /\ ppc = "idle"

EpOthers == <<slides_data, given, i, pc, err, prs, text, runs, ppc, calls, docs>>

\* the handler of lines 446-448: the request ends with status 500
EpFail(st) == [st EXCEPT !.pc = "responded", !.status = 500]

\* generate_structured_data_from_text, lines 363-373: the author default,
\* validation, .dict(); a ValidationError becomes a ValueError
EpValidate ==
    /\ ep.pc = "start"
    /\ LET data == [ep.data EXCEPT !.author = IF @.tag = "missing" THEN Some(sA) ELSE @]
       IN  ep' = IF PayloadValid(data)
                 THEN [ep EXCEPT !.pc = "reshape",
                                 !.slides = [k \in 1..Len(data.slides) |->
                                                SlideDict(data.slides[k])]]
                 ELSE EpFail(ep)
    /\ UNCHANGED EpOthers

\* lines 386-407
EpReshape ==
    /\ ep.pc = "reshape"
    /\ ep' = [ep EXCEPT !.pc = "layout",
                        !.slides = [k \in 1..Len(ep.slides) |-> Reshape(ep.slides[k])]]
    /\ UNCHANGED EpOthers

\* line 409
EpLayout ==
    /\ ep.pc = "layout"
    /\ \E r \in {create_presentation(ep.slides, 1, <<>>)} :
           ep' = IF r.pc = "error"
                 THEN [EpFail(ep) EXCEPT !.called = TRUE, !.doc = r.prs, !.err = r.err]
                 ELSE [ep EXCEPT !.pc = "save", !.called = TRUE, !.doc = r.prs]
    /\ UNCHANGED EpOthers

\* lines 412-414: presentation_object.save(buffer)
EpSave ==
    /\ ep.pc = "save"
    /\ \E ok \in BOOLEAN :
           ep' = IF ok THEN [ep EXCEPT !.pc = "upload", !.saved = TRUE] ELSE EpFail(ep)
    /\ UNCHANGED EpOthers

\* lines 416-444: the upload and the success response
EpUpload ==
    /\ ep.pc = "upload"
    /\ \E ok \in BOOLEAN :
           ep' = IF ok THEN [ep EXCEPT !.pc = "responded", !.uploaded = TRUE, !.status = 200]
                 ELSE EpFail(ep)
    /\ UNCHANGED EpOthers

NextEndpoint == EpValidate \/ EpReshape \/ EpLayout \/ EpSave \/ EpUpload

SpecEndpoint == InitEndpoint /\ [][NextEndpoint]_vars

(***************************************************************************)
(* Reference notions the markup claims are stated with.  They are read off *)
(* the markup syntax, not off the parser: a left-to-right scan in which a  *)
(* marker opens a span, the same kind of marker closes it, and spans do    *)
(* not nest.                                                               *)
(***************************************************************************)
RECURSIVE Scan(_, _, _)
Scan(s, p, mode) ==
    LET bad == [ok |-> FALSE, out |-> <<>>]
        keep == LET r == Scan(s, p + 1, mode)
                IN  [ok |-> r.ok, out |-> <<s[p]>> \o r.out]
    IN  IF p > Len(s) THEN [ok |-> mode = "plain", out |-> <<>>]
        ELSE IF mode = "plain"
        THEN IF At2(s, p, "*", "*") THEN Scan(s, p + 2, "bold")
             ELSE IF At2(s, p, "[", "[") THEN Scan(s, p + 2, "highlight")
             ELSE IF At2(s, p, "]", "]") THEN bad
             ELSE keep
        ELSE IF mode = "bold"
        THEN IF At2(s, p, "*", "*") THEN Scan(s, p + 2, "plain")
             ELSE IF At2(s, p, "[", "[") \/ At2(s, p, "]", "]") THEN bad
             ELSE keep
        ELSE IF At2(s, p, "]", "]") THEN Scan(s, p + 2, "plain")
             ELSE IF At2(s, p, "*", "*") \/ At2(s, p, "[", "[") THEN bad
             ELSE keep

\* every marker of s belongs to a span that is opened and closed
Balanced(s) == Scan(s, 1, "plain").ok

\* s without its marker delimiters
StripMarkers(s) == Scan(s, 1, "plain").out

\* the text of the runs, in order
RunsText(rs) == Concat([k \in 1..Len(rs) |-> rs[k].text])

\* a run written back in markup
Rewrap(r) ==
    IF r.bold /\ r.color = GOOGLE_BLUE THEN Opens \o r.text \o Closes
    ELSE IF r.bold THEN Stars \o r.text \o Stars
    ELSE r.text

RunsMarkup(rs) == Concat([k \in 1..Len(rs) |-> Rewrap(rs[k])])

HasLineBreak(s) == \E k \in 1..Len(s) : s[k] = "\n"

(***************************************************************************)
(* C9: markup round trip.  For every text whose markers are balanced, the  *)
(* texts of the runs, concatenated in order, are the input text with       *)
(* exactly the marker delimiters removed.                                  *)
(***************************************************************************)
C9_RoundTrip ==
    (ppc = "parsed" /\ Balanced(text)) => RunsText(runs) = StripMarkers(text)

(***************************************************************************)
(* C10: unbalanced markers are emitted literally.  For every text, writing *)
(* each styled run back between its markers and each plain run as it is    *)
(* gives the input text again (no character is dropped, a marker that is   *)
(* not part of a complete pair stands in a plain run), and no run is       *)
(* styled from a pair whose content holds a line break.                    *)
(***************************************************************************)
C10_UnbalancedLiteral ==
    ppc = "parsed" =>
        /\ RunsMarkup(runs) = text
        /\ \A k \in 1..Len(runs) : runs[k].bold => ~HasLineBreak(runs[k].text)

(***************************************************************************)
(* Notions the deck claims are stated with.                                 *)
(***************************************************************************)
\* the records whose pass of the loop has completed: slide k of the document
\* is the finished slide of record k
Built == 1..i

\* the call raised while it was working on record k
RaisedOn(k) == pc = "error" /\ k = i + 1

IsUnknown(r) == SlideType(r) \notin KnownTypes

\* the field holds no value: the key is absent or holds None
NotGiven(f) == f.tag # "val"

\* the roles of the shapes of a slide
Roles(slide) == {slide.shapes[n].role : n \in 1..Len(slide.shapes)}

ParaTexts(para) == {para.runs[b].text : b \in 1..Len(para.runs)}

\* every text drawn by a shape: the runs of its paragraphs and table cells
ShapeTexts(sh) ==
    UNION {ParaTexts(sh.paras[a]) : a \in 1..Len(sh.paras)}
    \cup UNION {ParaTexts(sh.cells[r][c]) : <<r, c>> \in
                   {<<r, c>> \in (1..Len(sh.cells)) \X (1..8) : c <= Len(sh.cells[r])}}

\* every text of a slide: drawn on the canvas or kept as its notes
SlideTexts(slide) ==
    UNION {ShapeTexts(slide.shapes[n]) : n \in 1..Len(slide.shapes)}
    \cup (IF slide.notes.tag = "val" THEN {slide.notes.v} ELSE {})

\* the first 1000 characters and the ellipsis for a longer text, the text
\* itself otherwise
Capped(t) == IF Len(t) > 1000 THEN SubStr(t, 1, 1000) \o Ellipsis ELSE t

\* the text of the title shape of slide k
TitleShown(slide) == RunsText(slide.shapes[1].paras[1].runs)

HasMarker(t) == \E q \in 1..Len(t) : t[q] \in {"*", "[", "]"}

(***************************************************************************)
(* C1: for every input list create_presentation returns a document with    *)
(* exactly one slide per record, the k-th slide built from the k-th record. *)
(* Stated on the call: it never ends in an exception, and when it has      *)
(* returned the document has one slide per record, slide k carrying the    *)
(* ordinal k, the type of record k and the shapes of record k.             *)
(***************************************************************************)
C1_OneSlidePerRecord ==
    /\ pc # "error"
    /\ pc = "done" =>
         /\ Len(prs) = Len(given)
         /\ \A k \in 1..Len(given) :
              /\ prs[k].name = SlideName(k, given[k])
              /\ prs[k].shapes = Dispatch(Guard(given[k]).data).shapes

(***************************************************************************)
(* C2: a record of unknown (or missing) type yields a slide with no body   *)
(* element, its notes are attached, no error is raised on it, and every    *)
(* later record is rendered as it is rendered on its own.                  *)
(***************************************************************************)
C2_UnknownKindSkipped ==
    \A k \in 1..Len(given) :
        IsUnknown(given[k]) =>
            /\ ~RaisedOn(k)
            /\ k \in Built =>
                 /\ prs[k].shapes = <<>>
                 /\ prs[k].notes = add_speaker_notes(Get(slides_data[k].notes, <<>>))
                 /\ \A j \in Built : j > k =>
                        prs[j].shapes = Dispatch(slides_data[j]).shapes

(***************************************************************************)
(* C3: a record in which an optional field is missing (key absent, or      *)
(* present with None) is rendered without error and without the region of  *)
(* that field: no notes, no subhead shape or paragraph, no section number.  *)
(***************************************************************************)
C3_MissingOptionalSkipped ==
    /\ \A k \in 1..Len(given) :
         (\E f \in {"notes", "subhead", "points", "twoColumn", "columns", "sectionNo", "images"} :
              NotGiven(given[k][f])) => ~RaisedOn(k)
    /\ \A k \in Built :
         /\ NotGiven(given[k].notes) => prs[k].notes = Missing
         /\ (NotGiven(given[k].subhead) /\ SlideType(given[k]) # "content")
                => "subhead" \notin Roles(prs[k])
         /\ (NotGiven(given[k].sectionNo) /\ SlideType(given[k]) = "section")
                => ShapeTexts(prs[k].shapes[1]) = {}

\* the required collection of the record is there and empty
EmptyCollection(r) ==
    LET t == SlideType(r)
        e(f) == f = Some(<<>>)
    IN  \/ t = "process" /\ e(r.steps)
        \/ t = "timeline" /\ e(r.milestones)
        \/ t = "diagram" /\ e(r.lanes)
        \/ t = "cards" /\ e(r.items)
        \/ t = "progress" /\ e(r.items)
        \/ t = "table" /\ e(r.headers) /\ e(r.rows)

(***************************************************************************)
(* C4: a record whose required collection is empty is rendered without     *)
(* error, and its slide carries the title, the subhead when given, and the *)
(* notes: no body element of any kind.                                     *)
(***************************************************************************)
C4_EmptyCollectionTitleOnly ==
    \A k \in 1..Len(given) :
        EmptyCollection(given[k]) =>
            /\ ~RaisedOn(k)
            /\ k \in Built =>
                 Roles(prs[k]) \subseteq
                     ({"title"} \cup IF Has(given[k].subhead) THEN {"subhead"} ELSE {})

(***************************************************************************)
(* C5: once the guard has run on a record, a title or notes string longer  *)
(* than 1000 characters is its first 1000 characters and "...", a shorter  *)
(* one is unchanged; the later truncations leave it as it is: the notes of *)
(* the slide are the guarded notes, and the title drawn by a layout that   *)
(* draws the title as given (no markup in it) is the guarded title.        *)
(***************************************************************************)
C5_GuardTruncates ==
    \A k \in Built :
        /\ given[k].title.tag = "val" =>
             /\ slides_data[k].title = Some(Capped(given[k].title.v))
             /\ (SlideType(given[k]) \in KnownTypes \ {"section", "closing"}
                    /\ ~HasMarker(given[k].title.v))
                  => TitleShown(prs[k]) = Capped(given[k].title.v)
        /\ given[k].notes.tag = "val" =>
             /\ slides_data[k].notes = Some(Capped(given[k].notes.v))
             /\ given[k].notes.v # <<>> => prs[k].notes = Some(Capped(given[k].notes.v))

\* a slide is in the document whose record came with a title and notes over
\* the ceiling, and another whose title and notes are exactly at the ceiling
C5_Witness ==
    /\ \E k \in Built : /\ given[k].title.tag = "val" /\ Len(given[k].title.v) > 1000
                        /\ given[k].notes.tag = "val" /\ Len(given[k].notes.v) > 1000
                        /\ Len(TitleShown(prs[k])) = 1003
                        /\ Len(prs[k].notes.v) = 1003
    /\ \E k \in Built : /\ given[k].title.tag = "val" /\ Len(given[k].title.v) = 1000
                        /\ TitleShown(prs[k]) = given[k].title.v

(***************************************************************************)
(* C6: every string drawn on a slide or kept as its notes has passed the   *)
(* length guard: none is longer than the 1000-character ceiling plus the   *)
(* ellipsis.                                                               *)
(***************************************************************************)
C6_DrawnTextsCapped ==
    \A k \in Built : \A t \in SlideTexts(prs[k]) : Len(t) <= 1000 + Len(Ellipsis)

(***************************************************************************)
(* C7: create_presentation treats the records as read-only: when the call  *)
(* has returned, every field of every record is as the caller gave it.     *)
(***************************************************************************)
C7_RecordsUnchanged == pc = "done" => slides_data = given

\* a section record that carries no section number of its own
AutoNumbered(r) == SlideType(r) = "section" /\ NotGiven(r.sectionNo)

\* the number drawn on a section slide
SectionNoShown(slide) == RunsText(slide.shapes[1].paras[1].runs)

(***************************************************************************)
(* C8: section slides without an explicit sectionNo are auto-numbered: the *)
(* number drawn is never empty, and two such slides of a deck never show   *)
(* the same number.                                                        *)
(***************************************************************************)
C8_SectionsAutoNumbered ==
    \A k \in Built :
        AutoNumbered(given[k]) =>
            /\ SectionNoShown(prs[k]) # <<>>
            /\ \A j \in Built :
                   (j < k /\ AutoNumbered(given[j]))
                       => SectionNoShown(prs[j]) # SectionNoShown(prs[k])

\* the runs the markup of a text calls for, read off the spans the pattern
\* finds: in the list re.split returns, the parts at even places (counted
\* from 1) are the spans and the parts at odd places the stretches between
RECURSIVE SpanRuns(_, _)
SpanRuns(parts, k) ==
    IF k > Len(parts) THEN <<>>
    ELSE (IF k % 2 = 0
          THEN <<Run(Inner(parts[k]), TRUE,
                     IF parts[k][1] = "*" THEN NoColor ELSE GOOGLE_BLUE)>>
          ELSE IF parts[k] # <<>> THEN <<Run(parts[k], FALSE, NoColor)>>
          ELSE <<>>) \o SpanRuns(parts, k + 1)

(***************************************************************************)
(* C11: the runs come in the order of the text: each **X** span is one     *)
(* bold run with the text X and no colour, each [[X]] span one bold run    *)
(* with the text X and the accent colour, every other non-empty stretch    *)
(* one plain run; an empty or null text yields no run.                     *)
(***************************************************************************)
C11_RunsFollowSpans ==
    /\ ppc = "parsed" => runs = SpanRuns(re_split(text), 1)
    /\ apply_formatted_text_to_paragraph(None) = <<>>
    /\ apply_formatted_text_to_paragraph(Some(<<>>)) = <<>>

(***************************************************************************)
(* Notions the layout claims are stated with.  Lengths are in EMU.          *)
(***************************************************************************)
\* the shapes of a slide that draw the part r of the layout, in drawing order
OfRole(slide, r) == SelectSeq(slide.shapes, LAMBDA sh : sh.role = r)

RightEdge(sh) == sh.box.left + sh.box.width
BottomEdge(sh) == sh.box.top + sh.box.height

LeftMargin == Trunc(MARGIN_LEFT)
RightMarginX == Trunc(Sub(SLIDE_WIDTH, MARGIN_RIGHT))

\* the steps and connectors of a process slide as drawn, left to right
ProcessRow(slide) == SelectSeq(slide.shapes, LAMBDA sh : sh.role \in {"step", "connector"})

RECURSIVE SumWidths(_)
SumWidths(row) == IF row = <<>> THEN 0 ELSE Head(row).box.width + SumWidths(Tail(row))

\* the gaps of a row: from the right edge of each shape to the left edge of
\* the next
RECURSIVE SumGaps(_)
SumGaps(row) ==
    IF Len(row) < 2 THEN 0
    ELSE (row[2].box.left - RightEdge(row[1])) + SumGaps(Tail(row))

NumSteps(r) == IF r.steps.tag = "val" THEN Len(r.steps.v) ELSE 0

IsProcess(k, ns) == k \in Built /\ SlideType(given[k]) = "process" /\ NumSteps(given[k]) \in ns

\* the row starts at the left margin, and its widths and gaps add up to the
\* span between the margins within one unit
RowSpans(slide) ==
    LET row == ProcessRow(slide)
    IN  /\ row # <<>>
        /\ row[1].box.left = LeftMargin
        /\ Abs(SumWidths(row) + SumGaps(row) - (RightMarginX - LeftMargin)) <= 1
        /\ Abs(RightEdge(row[Len(row)]) - RightMarginX) <= 1

(***************************************************************************)
(* C12: process geometry.  For N steps, N in {1, 2, 3, 5}, the widths of   *)
(* the step boxes, the connectors and the gaps add up to the span between  *)
(* the margins within one unit: the row starts at the left margin and ends *)
(* at the right margin.                                                    *)
(***************************************************************************)
C12_ProcessRowSpans ==
    \A k \in 1..Len(given) : IsProcess(k, {1, 2, 3, 5}) => RowSpans(prs[k])

(***************************************************************************)
(* C12 as amended: the same for N in {2, 3, 5}; for N = 1 the row is the   *)
(* one step box of the fixed step width at the left margin.                *)
(***************************************************************************)
C12_ProcessRowSpansFromTwo ==
    \A k \in 1..Len(given) :
        /\ IsProcess(k, {2, 3, 5}) => RowSpans(prs[k])
        /\ IsProcess(k, {1}) =>
               /\ Len(ProcessRow(prs[k])) = 1
               /\ ProcessRow(prs[k])[1].box.left = LeftMargin
               /\ ProcessRow(prs[k])[1].box.width = Trunc(step_size)

\* a process slide of five steps is drawn: nine shapes in the row
C12_Witness ==
    \E k \in 1..Len(given) : IsProcess(k, {5}) /\ Len(ProcessRow(prs[k])) = 9

\* the gap of the layout rule for n > 1 steps:
\* (available - n * stepSize - (n - 1) * connectorWidth) / (2 * (n - 1))
\* times 2 * (n - 1)
RuleGapNumerator(n) ==
    (RightMarginX - LeftMargin) - n * Trunc(step_size) - (n - 1) * Trunc(connector_width)

\* d is the rule's gap for n steps, within one unit
IsRuleGap(d, n) == Abs(d * 2 * (n - 1) - RuleGapNumerator(n)) <= 2 * (n - 1)

(***************************************************************************)
(* C13: a process slide of N >= 1 steps has exactly N step shapes and N-1  *)
(* connector arrows, drawn alternately in input order from left to right;  *)
(* connector j starts one gap width after the right edge of step j and     *)
(* ends one gap width before the left edge of step j+1; a single step has  *)
(* no connector.                                                           *)
(***************************************************************************)
C13_StepsAndConnectors ==
    \A k \in Built :
        (SlideType(given[k]) = "process" /\ NumSteps(given[k]) >= 1) =>
            LET n == NumSteps(given[k])
                row == ProcessRow(prs[k])
                steps == OfRole(prs[k], "step")
                conns == OfRole(prs[k], "connector")
            IN  /\ Len(steps) = n
                /\ Len(conns) = n - 1
                /\ Len(row) = 2 * n - 1
                /\ \A j \in 1..n :
                       /\ row[2 * j - 1].role = "step"
                       /\ row[2 * j - 1].shape = "rectangle"
                       /\ RunsText(row[2 * j - 1].paras[1].runs)
                              = StripMarkers(given[k].steps.v[j])
                /\ \A j \in 1..(n - 1) :
                       /\ row[2 * j].role = "connector"
                       /\ row[2 * j].shape = "right_arrow"
                       /\ steps[j].box.left < steps[j + 1].box.left
                       /\ IsRuleGap(conns[j].box.left - RightEdge(steps[j]), n)
                       /\ IsRuleGap(steps[j + 1].box.left - RightEdge(conns[j]), n)

\* a process slide of three steps is drawn with two connectors
C13_Witness ==
    \E k \in Built :
        /\ SlideType(given[k]) = "process" /\ NumSteps(given[k]) = 3
        /\ Len(OfRole(prs[k], "connector")) = 2

NumMilestones(r) == IF r.milestones.tag = "val" THEN Len(r.milestones.v) ELSE 0

IsTimeline(k) == k \in Built /\ SlideType(given[k]) = "timeline"

\* the baseline rectangle of a timeline slide
Baseline(slide) == OfRole(slide, "baseline")[1]

(***************************************************************************)
(* C14: timeline alternation.  The description box of milestone i (from 0) *)
(* lies below the baseline when i is even and above it when i is odd, at   *)
(* a height that depends on the parity of i only; the date label lies      *)
(* above the baseline for even i and above the description box for odd i.  *)
(***************************************************************************)
C14_TimelineAlternation ==
    \A k \in 1..Len(given) :
        IsTimeline(k) =>
            LET n == NumMilestones(given[k])
                line == Baseline(prs[k])
                descs == OfRole(prs[k], "milestone_desc")
                dates == OfRole(prs[k], "milestone_date")
            IN  /\ Len(descs) = n
                /\ Len(dates) = n
                /\ \A j \in 1..n :
                       IF (j - 1) % 2 = 0
                       THEN /\ descs[j].box.top >= BottomEdge(line)
                            /\ BottomEdge(dates[j]) <= line.box.top
                       ELSE /\ BottomEdge(descs[j]) <= line.box.top
                            /\ dates[j].box.top < descs[j].box.top
                /\ \A j1, j2 \in 1..n :
                       (j1 % 2 = j2 % 2) =>
                           /\ descs[j1].box.top = descs[j2].box.top
                           /\ dates[j1].box.top = dates[j2].box.top

\* a timeline of four milestones is drawn
C14_Witness ==
    \E k \in 1..Len(given) :
        /\ IsTimeline(k) /\ NumMilestones(given[k]) = 4
        /\ Len(OfRole(prs[k], "milestone_desc")) = 4

\* twice the x of the centre of a shape
TwiceCentreX(sh) == 2 * sh.box.left + sh.box.width

IsTable(k) == k \in 1..Len(given) /\ SlideType(given[k]) = "table"

\* the table shapes of a slide
Tables(slide) == OfRole(slide, "table")

(***************************************************************************)
(* C16: table dimensions.  The table is created with len(rows) rows, one   *)
(* more when headers is non-empty, and with len(headers) columns, or       *)
(* len(rows[0]) columns when headers is empty; with neither headers nor    *)
(* rows, or when the column count so derived is 0, no table is created and *)
(* no error is raised.                                                     *)
(***************************************************************************)
C16_TableDimensions ==
    \A k \in 1..Len(given) :
        (IsTable(k) /\ (k \in Built \/ RaisedOn(k))) =>
            LET h == given[k].headers.v
                rs == given[k].rows.v
                cols == IF h # <<>> THEN Len(h) ELSE IF rs # <<>> THEN Len(rs[1]) ELSE 0
                rows == Len(rs) + (IF h # <<>> THEN 1 ELSE 0)
            IN  IF (h = <<>> /\ rs = <<>>) \/ cols = 0
                THEN /\ k \in Built
                     /\ Tables(prs[k]) = <<>>
                ELSE /\ Len(prs) >= k
                     /\ Len(Tables(prs[k])) = 1
                     /\ Len(Tables(prs[k])[1].cells) = rows
                     /\ Tables(prs[k])[1].cols = cols
                     /\ \A r \in 1..rows : Len(Tables(prs[k])[1].cells[r]) = cols

\* a table with a header row of two cells and two data rows is drawn
C16_Witness ==
    \E k \in Built : /\ IsTable(k)
                     /\ Len(given[k].headers.v) = 2 /\ Len(given[k].rows.v) = 2
                     /\ Len(Tables(prs[k])[1].cells) = 3
                     /\ Tables(prs[k])[1].cols = 2

IsCards(k) == k \in Built /\ SlideType(given[k]) = "cards"

Cards(slide) == OfRole(slide, "card")

\* the cards of a slide laid out in a grid of c columns: the first row holds
\* min(n, c) cards, card j + c stands under card j, and c card widths with
\* c - 1 gaps of 0.3in fill the span between the margins
InColumns(cards, c) ==
    LET n == Len(cards)
        gap == Trunc(gap_between_cards)
    IN  /\ Cardinality({j \in 1..n : cards[j].box.top = cards[1].box.top})
               = (IF n < c THEN n ELSE c)
        /\ \A j \in 1..n :
               /\ Abs(cards[j].box.width * c + (c - 1) * gap - (RightMarginX - LeftMargin)) <= c
               /\ j + c <= n => /\ cards[j + c].box.left = cards[j].box.left
                                /\ cards[j + c].box.top > cards[j].box.top
               /\ (j < n /\ j % c # 0) => /\ cards[j + 1].box.left > cards[j].box.left
                                          /\ cards[j + 1].box.top = cards[j].box.top

(***************************************************************************)
(* C17: cards column clamp.  Every columns value other than 2 or 3         *)
(* (absent, null, 0, 1, 4, a value that is no whole number) is treated as  *)
(* 2; the values 2 and 3 are used as given.                                *)
(***************************************************************************)
C17_CardsColumnClamp ==
    \A k \in 1..Len(given) :
        (IsCards(k) /\ given[k].items.v # <<>>) =>
            LET f == given[k].columns
            IN  /\ Len(Cards(prs[k])) = Len(given[k].items.v)
                /\ InColumns(Cards(prs[k]),
                             IF f.tag = "val" /\ f.v = 3 THEN 3 ELSE 2)

\* four cards with columns 4 are laid out two to the row, and four cards
\* with columns 3 three to the row
C17_Witness ==
    \E k \in 1..Len(given) :
        /\ IsCards(k)
        /\ Len(Cards(prs[k])) = 4
        /\ given[k].columns = Some(4)
        /\ Cards(prs[k])[3].box.left = Cards(prs[k])[1].box.left

IsProgress(k) == k \in Built /\ SlideType(given[k]) = "progress"

\* item.get("percent", 0)
PercentOf(item) == IF item.percent.tag = "missing" THEN 0 ELSE item.percent.v

(***************************************************************************)
(* C18: progress bars.  For every progress item the foreground bar has the *)
(* left edge and the height of the background bar and the width            *)
(* barWidth * percent / 100, percent not clamped: for 0 <= percent <= 100  *)
(* the foreground bar stays within the background bar, for a percent over  *)
(* 100 it is wider than the background bar and for a negative percent its  *)
(* width is negative.                                                      *)
(***************************************************************************)
C18_ProgressFill ==
    \A k \in 1..Len(given) :
        (IsProgress(k) /\ Truthy(Get(given[k].items, <<>>))) =>
            LET items == given[k].items.v
                bg == OfRole(prs[k], "bar_background")
                fg == OfRole(prs[k], "bar_fill")
            IN  /\ Len(bg) = Len(items)
                /\ Len(fg) = Len(items)
                /\ \A j \in 1..Len(items) :
                       LET percent == PercentOf(items[j])
                       IN  /\ fg[j].box.left = bg[j].box.left
                           /\ fg[j].box.height = bg[j].box.height
                           \* to the EMU: the width is written as a whole number
                           /\ Abs(fg[j].box.width * 100 - bg[j].box.width * percent) <= 100
                           /\ (0 <= percent /\ percent <= 100) =>
                                  /\ 0 <= fg[j].box.width
                                  /\ RightEdge(fg[j]) <= RightEdge(bg[j])
                           /\ percent > 100 => RightEdge(fg[j]) > RightEdge(bg[j])
                           /\ percent < 0 => fg[j].box.width < 0

\* a slide with one bar filled beyond its background and one of negative width
C18_Witness ==
    \E k \in 1..Len(given) :
        /\ IsProgress(k)
        /\ Len(OfRole(prs[k], "bar_fill")) = 2
        /\ \E j \in 1..2 : OfRole(prs[k], "bar_fill")[j].box.width
                              > OfRole(prs[k], "bar_background")[j].box.width
        /\ \E j \in 1..2 : OfRole(prs[k], "bar_fill")[j].box.width < 0

\* the deck is a title record followed by a closing record
TitleThenClosing ==
    /\ Len(given) = 2
    /\ SlideType(given[1]) = "title"
    /\ SlideType(given[2]) = "closing"

\* the texts drawn on the canvas of a slide (its notes are not on the canvas)
CanvasTexts(slide) == UNION {ShapeTexts(slide.shapes[n]) : n \in 1..Len(slide.shapes)}

\* the text shown by the title shape of a slide
VisibleTitle(slide) ==
    LET paras == OfRole(slide, "title")[1].paras
    IN  Concat([a \in 1..Len(paras) |-> RunsText(paras[a].runs)])

ThankYou == <<"T", "h", "a", "n", "k", " ", "y", "o", "u">>

\* the call has returned with the two slides the claim describes
TwoSlidesAsClaimed ==
    /\ Len(prs) = 2
    /\ given[1].title.tag = "val" => VisibleTitle(prs[1]) = given[1].title.v
    /\ CanvasTexts(prs[2]) = {ThankYou}

(***************************************************************************)
(* C19: a deck of a title record followed by a closing record is rendered  *)
(* without error into exactly two slides; the title shown on the first is  *)
(* the record's title and the only text shown on the second is "Thank      *)
(* you", whatever fields the closing record carries.                       *)
(***************************************************************************)
C19_TitleThenClosing ==
    TitleThenClosing =>
        /\ pc # "error"
        /\ pc = "done" => TwoSlidesAsClaimed

\* C19 apart from the null notes of line 1004 and the titles the guard cuts
C19_ApartFromNullNotes ==
    (TitleThenClosing /\ Len(Get(given[1].title, <<>>).v) <= GuardCeiling) =>
        /\ pc = "error" => err = 1004
        /\ pc = "done" => TwoSlidesAsClaimed

(***************************************************************************)
(* C20: the k-th slide (k from 1) is named "Slide_<k>_<kind>", <kind> the  *)
(* type of the k-th record, before its layout function runs (a slide whose *)
(* layout raised carries the name); the names of the slides of a document  *)
(* are pairwise distinct.                                                  *)
(***************************************************************************)
C20_SlideNames ==
    /\ \A k \in 1..Len(prs) :
           prs[k].name = <<"S", "l", "i", "d", "e", "_">> \o IntStr(k) \o <<"_">>
                            \o TypeChars(SlideType(given[k]))
    /\ \A k, m \in 1..Len(prs) : k # m => prs[k].name # prs[m].name

\* two slides of one kind, the second named before its layout raised
C20_Witness ==
    /\ Len(prs) = 2
    /\ RaisedOn(2)
    /\ SlideType(given[1]) = SlideType(given[2])

Ended(c) == calls[c].pc \in {"done", "error"}

(***************************************************************************)
(* C21: concurrent create_presentation calls on their own slide lists      *)
(* share no mutable state.  Under every interleaving each call builds its  *)
(* own document, and when a call has ended its document, its outcome and   *)
(* its list are the ones of the call run alone on the same input.          *)
(***************************************************************************)
C21_CallsIndependent ==
    \A c \in DOMAIN calls :
        /\ Len(docs[c]) <= Len(calls[c].given)
        /\ Ended(c) =>
               LET alone == create_presentation(calls[c].given, 1, <<>>)
               IN  /\ docs[c] = alone.prs
                   /\ calls[c].pc = alone.pc
                   /\ calls[c].err = alone.err
                   /\ calls[c].slides_data = alone.slides_data

\* both calls have returned, each with a two-slide document of its own, the
\* two documents different
C21_Witness ==
    /\ DOMAIN calls = Callers
    /\ \A c \in Callers : calls[c].pc = "done" /\ Len(docs[c]) = 2
    /\ docs["a"] # docs["b"]

\* the three ways the claim names in which a slide fails the schema
UnrecognisedType(r) == r.type.tag # "val" \/ r.type.v \notin KnownTypes

MissingRequired(r) ==
    \/ r.type.tag = "val" /\ r.type.v = "title" /\ (NotGiven(r.title) \/ NotGiven(r.date))
    \/ r.type.tag = "val" /\ r.type.v = "process" /\ r.steps.tag = "missing"
    \/ r.type.tag = "val" /\ r.type.v = "cards" /\ r.items.tag = "missing"

WrongFieldType(r) ==
    \/ \E f \in DOMAIN r : r[f] = Other
    \/ r.type.tag = "val" /\ r.type.v = "cards" /\ r.columns.tag = "val"
           /\ r.columns.v \notin {2, 3}

FailsSchema(data) ==
    \/ data.title.tag = "missing"
    \/ \E k \in 1..Len(data.slides) :
           UnrecognisedType(data.slides[k]) \/ MissingRequired(data.slides[k])
               \/ WrongFieldType(data.slides[k])

(***************************************************************************)
(* C22: in the generate_from_text endpoint a payload that fails            *)
(* PresentationPayload validation never reaches create_presentation: the   *)
(* request ends with an error response, no slide is laid out and nothing   *)
(* is uploaded.  An upload happens only after validation, the layout of    *)
(* all slides and serialization have succeeded.                            *)
(***************************************************************************)
C22_InvalidNeverLaidOut ==
    ep # <<>> =>
        /\ FailsSchema(ep.data) =>
               /\ ~ep.called /\ ep.doc = <<>> /\ ~ep.uploaded
               /\ ep.pc \in {"start", "responded"}
               /\ ep.pc = "responded" => ep.status = 500
        /\ ep.uploaded =>
               /\ ~FailsSchema(ep.data)
               /\ ep.called /\ ep.err = 0 /\ Len(ep.doc) = Len(ep.data.slides)
               /\ ep.saved

\* a request turned away with status 500 for its second slide, of
\* unrecognised type, after a first slide that validates: nothing laid out
C22_Witness ==
    /\ ep # <<>>
    /\ ep.pc = "responded"
    /\ ep.status = 500
    /\ Len(ep.data.slides) = 2
    /\ SlideValid(ep.data.slides[1])
    /\ UnrecognisedType(ep.data.slides[2])
    /\ ~ep.called

\* a request answered with status 200 after the upload of a two-slide document
UploadedTwoSlides ==
    /\ ep # <<>>
    /\ ep.status = 200
    /\ ep.uploaded
    /\ Len(ep.doc) = 2

IsSection(k) == k \in Built /\ SlideType(given[k]) = "section"

\* s starts with a "<number>. " prefix: digits, a period, a space
HasNumberPrefix(s) ==
    LET d == SpanLen(s, 1, Digit)
    IN  d >= 1 /\ d + 2 <= Len(s) /\ s[d + 1] = "." /\ s[d + 2] = " "

\* s without that prefix and the spaces that continue it
WithoutNumberPrefix(s) ==
    LET d == SpanLen(s, 1, Digit)
    IN  SubStr(s, d + 2 + SpanLen(s, d + 2, {" "}), Len(s))

(***************************************************************************)
(* C23: draw_section_slide draws the section title with exactly a leading  *)
(* "<number>. " prefix removed: a title that starts with digits, a period  *)
(* and a space is drawn without the prefix, and a title that does not      *)
(* start with such a prefix (digits that belong to a word or a year, as in *)
(* "3D ..." or "2025 ...") is drawn unchanged.                             *)
(***************************************************************************)
C23_SectionPrefix ==
    \A k \in 1..Len(given) :
        IsSection(k) =>
            LET t == given[k].title.v
            IN  VisibleTitle(prs[k]) = (IF HasNumberPrefix(t) THEN WithoutNumberPrefix(t) ELSE t)

\* the part of C23 about titles that carry the prefix
C23_PrefixedTitles ==
    \A k \in 1..Len(given) :
        (IsSection(k) /\ HasNumberPrefix(given[k].title.v)) =>
            VisibleTitle(prs[k]) = WithoutNumberPrefix(given[k].title.v)

\* the first place at or after from where the two characters a, b stand, 0
\* if there is none
FirstAt(s, from, a, b) ==
    LET S == {q \in from..(Len(s) - 1) : s[q] = a /\ s[q + 1] = b}
    IN  IF S = {} THEN 0 ELSE SetMin(S)

\* where the span opened at p ends: at the first closing marker of its kind
\* after the opening marker (0: p opens no span)
SpanEnd(s, p) ==
    IF At2(s, p, "*", "*") THEN FirstAt(s, p + 2, "*", "*")
    ELSE IF At2(s, p, "[", "[") THEN FirstAt(s, p + 2, "]", "]")
    ELSE 0

\* the text read left to right as stretches and spans; a span runs from its
\* opening marker to the first closing marker after it, whatever lies inside
RECURSIVE Pieces(_, _)
Pieces(s, from) ==
    LET opens == {p \in from..Len(s) : SpanEnd(s, p) > 0}
        stretch(lo, hi) == IF lo > hi THEN <<>>
                           ELSE <<[kind |-> "plain", text |-> SubStr(s, lo, hi)]>>
    IN  IF opens = {}
        THEN stretch(from, Len(s))
        ELSE LET p == SetMin(opens)
                 q == SpanEnd(s, p)
             IN  stretch(from, p - 1)
                 \o <<[kind |-> IF s[p] = "*" THEN "bold" ELSE "highlight",
                       text |-> SubStr(s, p + 2, q - 1)]>>
                 \o Pieces(s, q + 2)

MarkerFree(t) == \A k \in 1..Len(t) : t[k] \notin {"*", "[", "]"}

StyledRun(piece) ==
    Run(piece.text, TRUE, IF piece.kind = "highlight" THEN GOOGLE_BLUE ELSE NoColor)

(***************************************************************************)
(* C24: markers do not nest and matching is non-greedy.  A span ends at    *)
(* the first closing marker after its opening marker: every span of the    *)
(* text read that way is one styled run holding what lies between its      *)
(* markers.  Two separate pairs with text between them give two styled     *)
(* runs with a plain run between, and a pair of the other kind inside a    *)
(* span stays literal text of the one outer run.                           *)
(***************************************************************************)
C24_FirstCloserNoNesting ==
    (ppc = "parsed") =>
        LET pieces == Pieces(text, 1)
        IN  /\ Len(runs) = Len(pieces)
            /\ \A j \in 1..Len(pieces) :
                   /\ pieces[j].kind # "plain" => runs[j] = StyledRun(pieces[j])
                   /\ (pieces[j].kind = "plain" /\ MarkerFree(pieces[j].text)) =>
                          runs[j] = Run(pieces[j].text, FALSE, NoColor)

\* "**a**a**a**" parsed into bold, plain, bold
C24_Witness ==
    /\ ppc = "parsed"
    /\ text = Stars \o <<"a">> \o Stars \o <<"a">> \o Stars \o <<"a">> \o Stars
    /\ runs = <<Run(<<"a">>, TRUE, NoColor), Run(<<"a">>, FALSE, NoColor),
                Run(<<"a">>, TRUE, NoColor)>>

\* "**a[[a]]a**" parsed into one bold run with the brackets as text
InnerPairLiteral ==
    /\ ppc = "parsed"
    /\ text = Stars \o <<"a">> \o Opens \o <<"a">> \o Closes \o <<"a">> \o Stars
    /\ runs = <<Run(<<"a">> \o Opens \o <<"a">> \o Closes \o <<"a">>, TRUE, NoColor)>>

IsTwoColumn(k) == SlideType(given[k]) = "content" /\ TruthyBool(given[k].twoColumn)

\* entry n of the columns field, the empty list when it is not there
ColumnEntries(f, n) == IF f.tag = "val" /\ Len(f.v) >= n THEN f.v[n] ELSE <<>>

\* the paragraphs of a pane after the empty one a cleared text frame keeps
PaneParas(sh) == Tail(sh.paras)

\* one paragraph per entry, in order, each the entry's text parsed as markup
OnePerEntry(paras, entries) ==
    /\ Len(paras) = Len(entries)
    /\ \A n \in 1..Len(entries) :
           paras[n].runs = apply_formatted_text_to_paragraph(Some(entries[n]))

\* the two panes of a finished two-column slide are as C25 describes
PanesAsClaimed(k) ==
    LET ls == OfRole(prs[k], "left_column")
        rs == OfRole(prs[k], "right_column")
    IN  /\ Len(ls) = 1 /\ Len(rs) = 1
        /\ ls[1].box.width = rs[1].box.width
        /\ ls[1].box.top = rs[1].box.top
        /\ ls[1].box.height = rs[1].box.height
        /\ ls[1].box.left = LeftMargin
        /\ rs[1].box.left = RightEdge(ls[1]) + Trunc(Inches(5, 10))
        /\ RightEdge(rs[1]) = RightMarginX
        /\ OnePerEntry(PaneParas(ls[1]), ColumnEntries(given[k].columns, 1))
        /\ OnePerEntry(PaneParas(rs[1]), ColumnEntries(given[k].columns, 2))

(***************************************************************************)
(* C25: a content slide with twoColumn set draws two panes of equal width, *)
(* top and height, 0.5in apart, which with the gap span exactly from the   *)
(* left margin to the right margin; the left pane holds one paragraph per  *)
(* entry of columns[0] and the right pane one per entry of columns[1], in  *)
(* input order and independent of each other (a missing second column      *)
(* gives an empty right pane).                                             *)
(***************************************************************************)
C25_TwoColumnPanes ==
    \A k \in 1..Len(given) :
        IsTwoColumn(k) =>
            /\ ~RaisedOn(k)
            /\ k \in Built => PanesAsClaimed(k)

\* C25 on the slides whose layout did not raise
C25_PanesWhenDrawn ==
    \A k \in 1..Len(given) : (IsTwoColumn(k) /\ k \in Built) => PanesAsClaimed(k)

\* a finished two-column slide with two entries on the left and none on the right
TwoColumnDrawn ==
    \E k \in Built :
        /\ IsTwoColumn(k)
        /\ Len(ColumnEntries(given[k].columns, 1)) = 2
        /\ Len(given[k].columns.v) = 1

IsDiagram(k) == k \in Built /\ SlideType(given[k]) = "diagram"

\* where the body of a slide starts and ends, in EMU
BodyTopY(k) == Trunc(BodyTopAfterSubhead(given[k]))
BottomMarginY == Trunc(Sub(SLIDE_HEIGHT, MARGIN_BOTTOM))

(***************************************************************************)
(* C26: a diagram slide with N >= 1 lanes draws N lanes of equal height,   *)
(* stacked without gap or overlap in input order, which together fill the  *)
(* space between the body top and the bottom margin (within rounding); in  *)
(* every lane the title pane is 2in wide and the items pane lies to its    *)
(* right and ends at the right margin, holding one paragraph per item.     *)
(***************************************************************************)
C26_DiagramLanes ==
    \A k \in 1..Len(given) :
        (IsDiagram(k) /\ Truthy(Get(given[k].lanes, <<>>))) =>
            LET lanes == given[k].lanes.v
                n == Len(lanes)
                ts == OfRole(prs[k], "lane_title")
                is == OfRole(prs[k], "lane_items")
            IN  /\ Len(ts) = n /\ Len(is) = n
                /\ ts[1].box.top = BodyTopY(k)
                /\ Abs(BottomEdge(ts[n]) - BottomMarginY) <= 2
                /\ \A j \in 1..n :
                       /\ ts[j].box.height = ts[1].box.height
                       /\ is[j].box.height = ts[j].box.height
                       /\ is[j].box.top = ts[j].box.top
                       /\ j < n => Abs(ts[j + 1].box.top - BottomEdge(ts[j])) <= 1
                       /\ ts[j].box.left = LeftMargin
                       /\ ts[j].box.width = Trunc(Inches(2, 1))
                       /\ is[j].box.left >= RightEdge(ts[j])
                       /\ RightEdge(is[j]) = RightMarginX
                       /\ OnePerEntry(PaneParas(is[j]),
                                      IF lanes[j].items.tag = "val" THEN lanes[j].items.v ELSE <<>>)

\* seven lanes, whose height is no whole number of EMU, each with two items
C26_Witness ==
    \E k \in 1..Len(given) :
        /\ IsDiagram(k)
        /\ Len(OfRole(prs[k], "lane_title")) = 7
        /\ OfRole(prs[k], "lane_title")[1].box.height * 7 # BottomMarginY - BodyTopY(k)
        /\ Len(PaneParas(OfRole(prs[k], "lane_items")[7])) = 2

(***************************************************************************)
(* C27: on a cards slide with column count c (after the clamp) the card of *)
(* item i (from 0) stands in row i div c and column i mod c of a grid with *)
(* a fixed row height and a fixed gap and is filled with palette colour    *)
(* number i mod 6; the c card widths and c - 1 gaps span exactly from the  *)
(* left margin to the right margin; exactly one card is drawn per item, in *)
(* input order.                                                            *)
(***************************************************************************)
C27_CardGrid ==
    \A k \in 1..Len(given) :
        (IsCards(k) /\ Truthy(Get(given[k].items, <<>>))) =>
            LET items == given[k].items.v
                cards == Cards(prs[k])
                c == IF given[k].columns = Some(3) THEN 3 ELSE 2
                gap == Trunc(gap_between_cards)
                w == cards[1].box.width
                h == cards[1].box.height
            IN  /\ Len(cards) = Len(items)
                /\ c * w + (c - 1) * gap = RightMarginX - LeftMargin
                /\ h = Trunc(card_height)
                /\ \A j \in 1..Len(items) :
                       /\ cards[j].box.width = w
                       /\ cards[j].box.height = h
                       /\ cards[j].box.left = LeftMargin + ((j - 1) % c) * (w + gap)
                       /\ cards[j].box.top = cards[1].box.top + ((j - 1) \div c) * (h + gap)
                       /\ cards[j].fill = CARD_COLORS[((j - 1) % 6) + 1]
                       /\ cards[j].paras = CardParas(items[j])

\* seven cards in three columns: the seventh starts the third row and takes
\* the first palette colour again
C27_Witness ==
    \E k \in 1..Len(given) :
        /\ IsCards(k)
        /\ given[k].columns = Some(3)
        /\ Len(Cards(prs[k])) = 7
        /\ Cards(prs[k])[7].box.left = LeftMargin
        /\ Cards(prs[k])[7].box.top > Cards(prs[k])[4].box.top
        /\ Cards(prs[k])[7].fill = Cards(prs[k])[1].fill
        /\ Cards(prs[k])[2].fill # Cards(prs[k])[1].fill

\* the shape lies on the canvas
OnCanvas(sh) ==
    /\ sh.box.left >= 0
    /\ sh.box.top >= 0
    /\ RightEdge(sh) <= Trunc(SLIDE_WIDTH)
    /\ BottomEdge(sh) <= Trunc(SLIDE_HEIGHT)

(***************************************************************************)
(* C28: every element a layout function places on a slide lies inside the  *)
(* 16in x 9in canvas (left >= 0, top >= 0, left + width <= slide width,    *)
(* top + height <= slide height), for every slide kind and every number of *)
(* steps, milestones, lanes, cards and progress items.                     *)
(***************************************************************************)
C28_OnCanvas ==
    \A k \in 1..Len(prs) : \A n \in 1..Len(prs[k].shapes) : OnCanvas(prs[k].shapes[n])

\* C28 on the kinds and sizes that stay on the canvas: everything but the
\* date and description boxes of a timeline with two or more milestones,
\* the third row of cards, and progress fills of a percent outside 0..100
C28_OnCanvasElsewhere ==
    \A k \in 1..Len(prs) : \A n \in 1..Len(prs[k].shapes) :
        LET sh == prs[k].shapes[n]
        IN  \/ OnCanvas(sh)
            \/ SlideType(given[k]) = "timeline" /\ sh.role \in {"milestone_date", "milestone_desc"}
                   /\ Len(given[k].milestones.v) >= 2
            \/ SlideType(given[k]) = "cards" /\ sh.role = "card"
                   /\ sh.box.top > Cards(prs[k])[1].box.top + 2 * Trunc(card_height)
            \/ SlideType(given[k]) = "progress" /\ sh.role = "bar_fill"

\* the cells draw_table_slide writes for the header row h and the data rows
\* rs, as <<row, column>> counted from 0
CellWrites(h, rs) ==
    {<<0, c>> : c \in 0..(Len(h) - 1)}
    \cup {<<(IF Len(h) > 0 THEN 1 ELSE 0) + (d - 1), c>> :
             <<d, c>> \in {<<d, c>> \in (1..Len(rs)) \X (0..(MaxCols + 1)) : c < Len(rs[d])}}

\* the header row and data rows of a table record
HeaderOf(r) == IF Truthy(Get(r.headers, <<>>)) THEN r.headers.v ELSE <<>>
RowsOf(r) == IF Truthy(Get(r.rows, <<>>)) THEN r.rows.v ELSE <<>>

\* the record gets a grid: some header or row, and a column count over 0
HasGrid(r) ==
    /\ HeaderOf(r) # <<>> \/ RowsOf(r) # <<>>
    /\ (IF HeaderOf(r) # <<>> THEN Len(HeaderOf(r)) ELSE Len(RowsOf(r)[1])) > 0

(***************************************************************************)
(* C29: draw_table_slide only addresses cells inside the rows x cols grid  *)
(* it created: for every combination of headers and data rows, data rows   *)
(* longer or shorter than the column count included, every cell write has  *)
(* row index < rows and column index < cols, so filling the table never    *)
(* raises.                                                                 *)
(***************************************************************************)
C29_TableWritesInGrid ==
    \A k \in 1..Len(given) :
        (SlideType(given[k]) = "table" /\ HasGrid(given[k])) =>
            /\ ~RaisedOn(k)
            /\ k \in Built =>
                   \A w \in CellWrites(HeaderOf(given[k]), RowsOf(given[k])) :
                       /\ w[1] < Len(Tables(prs[k])[1].cells)
                       /\ w[2] < Tables(prs[k])[1].cols

\* C29 for tables none of whose data rows is longer than the grid is wide
C29_RowsThatFit ==
    \A k \in 1..Len(given) :
        (SlideType(given[k]) = "table" /\ HasGrid(given[k])
           /\ \A d \in 1..Len(RowsOf(given[k])) :
                  Len(RowsOf(given[k])[d])
                      <= (IF HeaderOf(given[k]) # <<>> THEN Len(HeaderOf(given[k]))
                          ELSE Len(RowsOf(given[k])[1]))) =>
            /\ ~RaisedOn(k)
            /\ k \in Built =>
                   \A w \in CellWrites(HeaderOf(given[k]), RowsOf(given[k])) :
                       /\ w[1] < Len(Tables(prs[k])[1].cells)
                       /\ w[2] < Tables(prs[k])[1].cols

(***************************************************************************)
(* C30: on a process slide of N >= 1 steps the gap is never negative: no   *)
(* shape of the row of step boxes and connector arrows starts left of the  *)
(* right edge of the shape before it, and the left edges of the row        *)
(* strictly increase.                                                      *)
(***************************************************************************)
RowInOrder(row) ==
    \A j \in 1..(Len(row) - 1) :
        /\ RightEdge(row[j]) <= row[j + 1].box.left
        /\ row[j].box.left < row[j + 1].box.left

C30_GapNeverNegative ==
    \A k \in Built :
        (SlideType(given[k]) = "process" /\ NumSteps(given[k]) >= 1) =>
            RowInOrder(ProcessRow(prs[k]))

\* the same for the slides of at most six steps, the most whose boxes and
\* arrows fit between the margins
C30_InOrderUpToSix ==
    \A k \in Built :
        (SlideType(given[k]) = "process" /\ NumSteps(given[k]) \in 1..6) =>
            RowInOrder(ProcessRow(prs[k]))

\* a process slide of seven steps is drawn and its first arrow starts left
\* of the right edge of the first step box
SevenStepsOverlap ==
    \E k \in Built :
        /\ SlideType(given[k]) = "process" /\ NumSteps(given[k]) = 7
        /\ ProcessRow(prs[k])[2].box.left < RightEdge(ProcessRow(prs[k])[1])

=============================================================================
